---- MODULE Spec2Model ----
(***************************************************************************)
(* Model of the MoBI-AV recorder: AudioRecorder (audio_recorder.py),       *)
(* VideoRecorder (video_recorder.py), MarkerStreams (lsl_utils.py) and the *)
(* coordinator RecorderCore (recorder_core.py), with the button handlers   *)
(* of RecorderApp (gui.py) as one of its callers.                          *)
(*                                                                         *)
(* The caller (GUI main thread) invokes one public operation at a time.    *)
(* Operations that block on a thread (join) or start one are split at that *)
(* point, so that the capture and preview threads interleave there.        *)
(***************************************************************************)
EXTENDS Integers, Sequences, FiniteSets, TLC

\* ---------------------------------------------------------------- bounds
MaxTime == 2            \* coarse clock values 1..MaxTime (one per second)
MaxOps == 3             \* public operations called per behaviour
MaxCaptureThreads == 2  \* capture-loop threads alive at once
MaxPreviewThreads == 1  \* preview-loop threads alive at once
MaxFrames == 1          \* frames counted per encoder (saturating)
MaxBufs == 1            \* audio buffers delivered by the driver
MaxFaults == 1          \* failures the environment injects per behaviour

Subjects == {"S1"}
Bool3 == {"True", "False", "Raise"}

\* ------------------------------------------------------ program constants
ConfigFps == 24         \* video_settings["fps"]
WarmUpAttempts == 10    \* range(10) in the warm-up loop
max_attempts == 30      \* recovery window of the capture loop
DeviceFps == {0, 15, 30}   \* what CAP_PROP_FPS may report
WarmUps == {0, WarmUpAttempts}   \* first read good / every read failed

VARIABLES
    now,            \* the clock, in seconds (coarse timestamp)
    a,              \* the AudioRecorder's fields
    v,              \* the VideoRecorder's fields
    markers,        \* what the two LSL outlets were given, in order
    wavs,           \* the WAV files written: set of [name, data]
    nbuf,           \* audio buffers the driver has delivered so far
    gui,            \* RecorderApp's six buttons: TRUE = enabled (tk.NORMAL)
    warm_up,        \* the warm-up loop of the video arm: reads made, success
    audio_format,   \* audio_settings (use_device_defaults, format) and the
                    \* AudioRecorder's actual_sample_width (0 stands for None)
    cthreads,       \* the capture-loop threads
    video_thread,   \* self.video_thread: index into cthreads, 0 = no attribute
    pthreads,       \* the preview-loop threads
    preview_thread, \* self.preview_thread: index into pthreads, 0 = None
    faults,         \* failures the environment has injected so far
    nops,           \* public operations called so far
    pc,             \* where the caller is
    call,           \* the call in flight, when pc # "idle"
    ret             \* the last completed call and what it returned

vars == <<now, a, v, markers, wavs, nbuf, cthreads, video_thread, pthreads,
          preview_thread, faults, nops, pc, call, ret, gui, warm_up,
          audio_format>>

\* ---------------------------------------------------------------- values
NoFile == <<>>

\* os.path.join(destination, f"{subject_id}{suffix}_{timestamp}.wav")
AudioName(subj, suffix, ts) == <<subj, suffix, ts, "wav">>

\* os.path.join(destination, f"{subject_id}{suffix}_{timestamp}.mp4")
VideoName(subj, suffix, ts) == <<subj, suffix, ts, "mp4">>

\* The subject and timestamp components embedded in a file name
NameSubject(f) == f[1]
NameStamp(f) == f[3]

\* ------------------------------------------------------------- lsl_utils
\* The payloads of MarkerStreams.send_*_marker.  The coarse timestamp of the
\* moment of publication and the audio channel count / sample rate are left
\* out of the payload; iso tells whether the ISO timestamp field is present.
AudioStartMarker(subj, file, iso) ==
    [kind |-> "AUDIO_START", subj |-> subj, file |-> file, iso |-> iso,
     fps |-> 0]

AudioStopMarker(file) ==
    [kind |-> "AUDIO_STOP", subj |-> "", file |-> file, iso |-> FALSE,
     fps |-> 0]

VideoStartMarker(subj, file, fps) ==
    [kind |-> "VIDEO_START", subj |-> subj, file |-> file, iso |-> TRUE,
     fps |-> fps]

VideoStopMarker(file) ==
    [kind |-> "VIDEO_STOP", subj |-> "", file |-> file, iso |-> FALSE,
     fps |-> 0]

\* --------------------------------------------------------- AudioRecorder
\* AudioRecorder.__init__
AudioInit ==
    [recording |-> FALSE, audio_stream |-> "None", audio_p |-> "None",
     audio_frames |-> <<>>, audio_filename |-> NoFile]

\* The device outcomes of AudioRecorder.start_recording:
\*   "ok"        the device is found and the stream opens
\*   "notfound"  find_device matches no device (selector by name)
\*   "openfail"  audio_p.open raises
\* (an explicit device index is taken to be valid and the destination
\* directory to be creatable)
AudioDevOutcomes == {"ok", "notfound", "openfail"}

\* `if self.recording:` of AudioRecorder.start_recording
AudioStartRejected(s) == s.recording

\* AudioRecorder.start_recording: result [a, ret, mk]
AudioStartRecording(s, subj, pre, fname, dev, t) ==
    IF AudioStartRejected(s)
    THEN [a |-> s, ret |-> "False", mk |-> <<>>]
    ELSE IF dev = "notfound"
    THEN [a |-> [s EXCEPT !.audio_p = "None"], ret |-> "False", mk |-> <<>>]
    ELSE IF dev = "openfail"
    THEN [a |-> [s EXCEPT !.audio_p = "terminated"], ret |-> "False",
          mk |-> <<>>]
    ELSE LET name == IF fname # NoFile THEN fname
                     ELSE AudioName(subj, "_audio", t)
             s1 == [s EXCEPT !.audio_p = "live",
                             !.audio_stream = IF pre THEN "open" ELSE "started",
                             !.audio_frames = <<>>,
                             !.audio_filename = name]
         IN IF pre
            THEN [a |-> s1, ret |-> "True", mk |-> <<>>]
            ELSE [a |-> [s1 EXCEPT !.recording = TRUE], ret |-> "True",
                  mk |-> <<AudioStartMarker(subj, name, FALSE)>>]

\* `if not hasattr(self, "audio_stream") or self.audio_stream is None:`
AudioNotPreInitialized(s) == s.audio_stream = "None"

\* Mutant: the begin path starts the stream but sends no marker
AudioStartPreInitialized_NoMarker(s, subj, t) ==
    IF s.audio_stream = "None"
    THEN [a |-> s, ret |-> "False", mk |-> <<>>]
    ELSE IF s.audio_stream = "closed"
    THEN [a |-> s, ret |-> "Raise", mk |-> <<>>]
    ELSE [a |-> [s EXCEPT !.audio_stream = "started", !.recording = TRUE],
          ret |-> "True", mk |-> <<>>]

\* Mutant: the begin path sends its marker before it starts the stream
AudioStartPreInitialized_MarkerFirst(s, subj, t) ==
    IF s.audio_stream = "None"
    THEN [a |-> s, ret |-> "False", mk |-> <<>>]
    ELSE IF s.audio_stream = "closed"
    THEN [a |-> s, ret |-> "Raise",
          mk |-> <<AudioStartMarker(subj, s.audio_filename, TRUE)>>]
    ELSE [a |-> [s EXCEPT !.audio_stream = "started", !.recording = TRUE],
          ret |-> "True",
          mk |-> <<AudioStartMarker(subj, s.audio_filename, TRUE)>>]

\* AudioRecorder.start_pre_initialized: result [a, ret, mk]
\* start_stream() on a closed stream raises; on a running one it does nothing
AudioStartPreInitialized(s, subj, t) ==
    IF AudioNotPreInitialized(s)
    THEN [a |-> s, ret |-> "False", mk |-> <<>>]
    ELSE IF s.audio_stream = "closed"
    THEN [a |-> s, ret |-> "Raise", mk |-> <<>>]
    ELSE [a |-> [s EXCEPT !.audio_stream = "started", !.recording = TRUE],
          ret |-> "True",
          mk |-> <<AudioStartMarker(subj, s.audio_filename, TRUE)>>]

\* `if not self.recording:` of AudioRecorder.stop_recording
AudioStopRejected(s) == ~s.recording

\* What the environment does to AudioRecorder.stop_recording:
\*   "ok"          every step succeeds
\*   "streamfail"  stop_stream() raises (the device has gone away)
\*   "iofail"      wave.open / writeframes raises
AudioStopOutcomes == {"ok", "streamfail", "iofail"}

\* Mutant: the stop marker is sent before the container is written
AudioStopRecording_MarkerFirst(s, out, t) ==
    IF ~s.recording
    THEN [a |-> s, ret |-> "False", mk |-> <<>>, wav |-> {}]
    ELSE IF s.audio_stream = "closed" \/ out = "streamfail"
    THEN [a |-> [s EXCEPT !.recording = FALSE], ret |-> "False", mk |-> <<>>,
          wav |-> {}]
    ELSE LET s1 == [s EXCEPT !.audio_stream = "closed",
                             !.audio_p = "terminated",
                             !.recording = FALSE]
         IN IF out = "ok"
            THEN [a |-> s1, ret |-> "True",
                  mk |-> <<AudioStopMarker(s.audio_filename)>>,
                  wav |-> {[name |-> s.audio_filename,
                            data |-> s.audio_frames]}]
            ELSE [a |-> s1, ret |-> "False",
                  mk |-> <<AudioStopMarker(s.audio_filename)>>, wav |-> {}]

\* AudioRecorder.stop_recording: result [a, ret, mk, wav]
AudioStopRecording(s, out, t) ==
    IF AudioStopRejected(s)
    THEN [a |-> s, ret |-> "False", mk |-> <<>>, wav |-> {}]
    ELSE IF s.audio_stream = "closed" \/ out = "streamfail"
    THEN \* stop_stream() raises: only `self.recording = False` runs
         [a |-> [s EXCEPT !.recording = FALSE], ret |-> "False", mk |-> <<>>,
          wav |-> {}]
    ELSE LET s1 == [s EXCEPT !.audio_stream = "closed",
                             !.audio_p = "terminated",
                             !.recording = FALSE]
         IN IF out = "ok"
            THEN [a |-> s1, ret |-> "True",
                  mk |-> <<AudioStopMarker(s.audio_filename)>>,
                  wav |-> {[name |-> s.audio_filename,
                            data |-> s.audio_frames]}]
            ELSE [a |-> s1, ret |-> "False", mk |-> <<>>, wav |-> {}]

\* AudioRecorder.audio_callback: the frames after the driver delivers buffer b
AudioCallback(s, b) ==
    IF s.recording THEN [s EXCEPT !.audio_frames = Append(@, b)] ELSE s

\* The session a start leaves (s1) when the driver has called audio_callback
\* with buffer b after the stream was started and before
\* `self.recording = True`
AudioCallbackEarly(s1, b) ==
    [AudioCallback([s1 EXCEPT !.recording = FALSE], b)
        EXCEPT !.recording = s1.recording]

\* --------------------------------------------------------- VideoRecorder
\* VideoRecorder.__init__  (actual_fps 0 stands for None)
VideoInit ==
    [recording |-> FALSE, thread_active |-> FALSE, video_capture |-> "None",
     video_writer |-> "None", written |-> 0, video_filename |-> NoFile,
     actual_fps |-> 0, show_preview |-> FALSE, preview_active |-> FALSE,
     latest_preview_frame |-> "None"]

Min(x, y) == IF x < y THEN x ELSE y

\* The effective frame rate negotiated by VideoRecorder.start_recording
NegotiateFps(devfps) ==
    IF devfps > 0 /\ devfps < ConfigFps THEN devfps ELSE ConfigFps

\* Mutant: the guard rejects the arm, not the direct start
VideoStartRejected_Inverted(s, pre) == s.recording /\ pre

\* `if self.recording and not pre_initialize:` of VideoRecorder.start_recording
VideoStartRejected(s, pre) == s.recording /\ ~pre

\* The camera handle after `if not self.video_capture or not isOpened():
\* self.video_capture = cv2.VideoCapture(camera_index)`
VideoOpenCapture(s, camOk) ==
    IF s.video_capture = "opened" THEN "opened"
    ELSE IF camOk THEN "opened" ELSE "closed"

\* VideoRecorder.start_recording up to the thread start: result [v, ret],
\* ret = "Spawn" when the recording thread is to be started.
\* warm = the failed warm-up reads before the first good one (10 = all failed)
VideoStartRecording(s, subj, pre, fname, camOk, devfps, warm, t) ==
    IF VideoStartRejected(s, pre)
    THEN [v |-> s, ret |-> "False"]
    ELSE IF VideoOpenCapture(s, camOk) = "closed"
    THEN [v |-> [s EXCEPT !.video_capture = "closed"], ret |-> "False"]
    ELSE LET name == IF fname # NoFile THEN fname
                     ELSE VideoName(subj, "_video", t)
             first == IF warm < WarmUpAttempts /\ ~pre
                      THEN Min(1, MaxFrames) ELSE 0
             s1 == [s EXCEPT !.video_capture = "opened",
                             !.actual_fps = NegotiateFps(devfps),
                             !.video_filename = name,
                             !.video_writer = "open",
                             !.written = first]
         IN IF pre
            THEN [v |-> s1, ret |-> "True"]
            ELSE [v |-> [s1 EXCEPT !.recording = TRUE,
                                   !.thread_active = TRUE],
                  ret |-> "Spawn"]

\* `if not hasattr(self, "video_capture") or self.video_capture is None:`
VideoNotPreInitialized(s) == s.video_capture = "None"

\* VideoRecorder.start_pre_initialized up to the thread start: result [v, ret]
VideoStartPreInitialized(s) ==
    IF VideoNotPreInitialized(s)
    THEN [v |-> s, ret |-> "False"]
    ELSE [v |-> [s EXCEPT !.recording = TRUE, !.thread_active = TRUE],
          ret |-> "Spawn"]

\* Mutant: stop_recording also accepts a session that only holds an encoder
VideoStopRejected_Mut(s) == ~s.recording /\ s.video_writer = "None"

\* `if not self.recording:` of VideoRecorder.stop_recording
VideoStopRejected(s) == ~s.recording

\* VideoRecorder.stop_recording, "Signal the thread to stop"
VideoStopSignal(s) == [s EXCEPT !.thread_active = FALSE, !.recording = FALSE]

\* `if self.video_capture and not self.show_preview:` of stop_recording
VideoStopReleasesCapture(s) == s.video_capture # "None" /\ ~s.show_preview

\* Mutant: the encoder is released only together with the camera
VideoStopRelease_Mut(s) ==
    [s EXCEPT !.video_writer = IF VideoStopReleasesCapture(s)
                               THEN "None" ELSE @,
              !.video_capture = IF VideoStopReleasesCapture(s)
                                THEN "None" ELSE @]

\* VideoRecorder.stop_recording, "Release resources" (after the join)
VideoStopRelease(s) ==
    [s EXCEPT !.video_writer = "None", !.written = 0,
              !.video_capture = IF VideoStopReleasesCapture(s)
                                THEN "None" ELSE @]

\* `if not self.recording and self.video_capture:` of stop_preview
PreviewStopReleasesCapture(s) == ~s.recording /\ s.video_capture # "None"

\* Mutant: stop_preview releases the encoder together with the camera
PreviewStopRelease_Writer(s) ==
    [s EXCEPT !.latest_preview_frame = "None",
              !.video_writer = "None",
              !.video_capture = IF PreviewStopReleasesCapture(s)
                                THEN "None" ELSE @]

\* VideoRecorder.stop_preview after the join
PreviewStopRelease(s) ==
    [s EXCEPT !.latest_preview_frame = "None",
              !.video_capture = IF PreviewStopReleasesCapture(s)
                                THEN "None" ELSE @]

\* ---------------------------------------------------------------- threads
NoThread == [pc |-> "free", att |-> 0]

FreeSlots(ths) == {i \in DOMAIN ths : ths[i].pc = "free"}

LowestFree(ths) == CHOOSE i \in FreeSlots(ths) : \A j \in FreeSlots(ths) : i <= j

Alive(ths) == {i \in DOMAIN ths : ths[i].pc # "free"}

\* threading.Thread(target=self._recording_thread).start()
SpawnCapture ==
    /\ FreeSlots(cthreads) # {}
    /\ LET i == LowestFree(cthreads)
       IN /\ cthreads' = [cthreads EXCEPT ![i] = [pc |-> "test", att |-> 0]]
          /\ video_thread' = i

\* threading.Thread(target=self._preview_thread).start()
SpawnPreview ==
    /\ FreeSlots(pthreads) # {}
    /\ LET i == LowestFree(pthreads)
       IN /\ pthreads' = [pthreads EXCEPT ![i] = [pc |-> "test", att |-> 0]]
          /\ preview_thread' = i

\* ----------------------------------------------------------------- caller
audioVars == <<a, wavs, nbuf>>
captureVars == <<cthreads, video_thread>>
previewVars == <<pthreads, preview_thread>>
callerVars == <<nops, pc, call, ret, gui, warm_up, audio_format>>

\* RecorderApp.create_control_buttons: the start buttons enabled, the stop
\* buttons created with state=tk.DISABLED
GuiInit ==
    [start_audio |-> TRUE, stop_audio |-> FALSE,
     start_video |-> TRUE, stop_video |-> FALSE,
     start_both |-> TRUE, stop_both |-> FALSE]

\* `warm_up_success = False` and the loop variable of `for _ in range(10)`
\* before the first iteration (reads = iterations entered so far)
WarmUpInit == [reads |-> 0, success |-> FALSE]

\* The audio_settings of the default configuration, and actual_sample_width
\* as AudioRecorder.__init__ leaves it
DefaultAudioFormat ==
    [use_device_defaults |-> TRUE, format |-> "paInt16",
     actual_sample_width |-> 0]

NoCall == [op |-> "", subj |-> "", acc |-> ""]

\* The operation returns val to a caller that is not a button handler: the
\* buttons stay as they are
Return(op, val) ==
    /\ pc' = "idle"
    /\ call' = NoCall
    /\ ret' = [op |-> op, val |-> val]
    /\ gui' = gui
    /\ warm_up' = warm_up
    /\ audio_format' = audio_format

\* The caller blocks inside operation op (at a join or after a thread start)
Block(at, op, subj, acc) ==
    /\ pc' = at
    /\ call' = [op |-> op, subj |-> subj, acc |-> acc]
    /\ ret' = ret
    /\ gui' = gui
    /\ warm_up' = warm_up
    /\ audio_format' = audio_format

Publish(mk) == markers' = markers \o mk

\* The caller is between calls and calls one more operation
Enter ==
    /\ pc = "idle"
    /\ nops < MaxOps
    /\ nops' = nops + 1

Bit(b) == IF b THEN 1 ELSE 0

\* The environment injects k failures
Inject(k) ==
    /\ faults + k <= MaxFaults
    /\ faults' = faults + k

Init ==
    /\ now = 1
    /\ a = AudioInit
    /\ v = VideoInit
    /\ markers = <<>>
    /\ wavs = {}
    /\ nbuf = 0
    /\ cthreads = [i \in 1..MaxCaptureThreads |-> NoThread]
    /\ video_thread = 0
    /\ pthreads = [i \in 1..MaxPreviewThreads |-> NoThread]
    /\ preview_thread = 0
    /\ faults = 0
    /\ nops = 0
    /\ pc = "idle"
    /\ call = NoCall
    /\ ret = [op |-> "init", val |-> "True"]
    /\ gui = GuiInit
    /\ warm_up = WarmUpInit
    /\ audio_format = DefaultAudioFormat

\* The clock advances
Tick ==
    /\ now < MaxTime
    /\ now' = now + 1
    /\ UNCHANGED <<v, markers, audioVars, captureVars, previewVars, faults,
                   callerVars>>

\* How many buffers the driver delivers while a start takes session s to s1:
\* none unless the start has started the stream
EarlyBuffers(s, s1) ==
    IF s.audio_stream # "started" /\ s1.audio_stream = "started"
    THEN {k \in 0..1 : nbuf + k <= MaxBufs}
    ELSE {0}

\* The start of the audio stream leaves session s1, and the driver may
\* deliver a buffer before the recording flag is set
AudioStarts(s1) ==
    \E k \in EarlyBuffers(a, s1) :
       /\ nbuf' = nbuf + k
       /\ a' = IF k = 0 THEN s1 ELSE AudioCallbackEarly(s1, nbuf + 1)

\* The audio driver delivers one buffer to audio_callback
DeliverBuffer ==
    /\ a.audio_stream = "started"
    /\ nbuf < MaxBufs
    /\ nbuf' = nbuf + 1
    /\ a' = AudioCallback(a, nbuf + 1)
    /\ UNCHANGED <<now, v, markers, wavs, captureVars, previewVars, faults,
                   callerVars>>

\* RecorderCore.start_audio_recording(subject_id, destination, device_index,
\* pre_initialize)
StartAudioRecording(subj, pre, dev) ==
    /\ Enter
    /\ dev # "ok" => ~AudioStartRejected(a)
    /\ Inject(Bit(dev # "ok"))
    /\ LET r == AudioStartRecording(a, subj, pre, NoFile, dev, now)
       IN /\ AudioStarts(r.a)
          /\ Publish(r.mk)
          /\ Return(IF pre THEN "a_arm" ELSE "a_start", r.ret)
    /\ UNCHANGED <<now, v, wavs, captureVars, previewVars>>

\* RecorderCore.start_pre_initialized_audio(subject_id)
StartPreInitializedAudio(subj) ==
    /\ Enter
    /\ LET r == AudioStartPreInitialized(a, subj, now)
       IN /\ AudioStarts(r.a)
          /\ Publish(r.mk)
          /\ Return("a_begin", r.ret)
    /\ UNCHANGED <<now, v, wavs, captureVars, previewVars, faults>>

\* The WAV files after wave.open(name, "wb") ... close()
WriteWav(files, w) ==
    {f \in files : \A x \in w : f.name # x.name} \cup w

\* Mutant: stopping the audio session also signals the video session to stop
StopAudioRecording_SignalsVideo(out) ==
    /\ Enter
    /\ out # "ok" => ~AudioStopRejected(a)
    /\ Inject(Bit(out # "ok"))
    /\ LET r == AudioStopRecording(a, out, now)
       IN /\ a' = r.a
          /\ Publish(r.mk)
          /\ wavs' = WriteWav(wavs, r.wav)
          /\ Return("a_stop", r.ret)
    /\ v' = VideoStopSignal(v)
    /\ UNCHANGED <<now, nbuf, captureVars, previewVars>>

\* RecorderCore.stop_audio_recording()
StopAudioRecording(out) ==
    /\ Enter
    /\ out # "ok" => ~AudioStopRejected(a)
    /\ Inject(Bit(out # "ok"))
    /\ LET r == AudioStopRecording(a, out, now)
       IN /\ a' = r.a
          /\ Publish(r.mk)
          /\ wavs' = WriteWav(wavs, r.wav)
          /\ Return("a_stop", r.ret)
    /\ UNCHANGED <<now, v, nbuf, captureVars, previewVars>>

\* Whether start_recording gets to open the camera
VideoOpensCamera(s, pre) ==
    ~VideoStartRejected(s, pre) /\ s.video_capture # "opened"

\* RecorderCore.start_video_recording(subject_id, destination, device_index,
\* pre_initialize), up to the start of the recording thread
StartVideoRecording(subj, pre, camOk, devfps, warm) ==
    /\ Enter
    /\ ~camOk => VideoOpensCamera(v, pre)
    /\ Inject(Bit(~camOk))
    /\ LET r == VideoStartRecording(v, subj, pre, NoFile, camOk, devfps, warm,
                                    now)
       IN /\ v' = r.v
          /\ IF r.ret = "Spawn"
             THEN /\ SpawnCapture
                  /\ Block("vstart_marker", "v_start", subj, "True")
             ELSE /\ Return(IF pre THEN "v_arm" ELSE "v_start", r.ret)
                  /\ UNCHANGED captureVars
    /\ UNCHANGED <<now, markers, audioVars, previewVars>>

\* RecorderCore.start_pre_initialized_video(subject_id), up to the start of
\* the recording thread
StartPreInitializedVideo(subj) ==
    /\ Enter
    /\ LET r == VideoStartPreInitialized(v)
       IN /\ v' = r.v
          /\ IF r.ret = "Spawn"
             THEN /\ SpawnCapture
                  /\ Block("vstart_marker", "v_begin", subj, "True")
             ELSE /\ Return("v_begin", r.ret)
                  /\ UNCHANGED captureVars
    /\ UNCHANGED <<now, markers, audioVars, previewVars, faults>>

\* Mutant: the result of the audio begin is dropped
BothStarted_VideoOnly(audio_success, video_success) == video_success

\* Mutant: `or` in place of `and`
BothStarted_Mut(audio_success, video_success) ==
    IF audio_success = "True" \/ video_success = "True"
    THEN "True" ELSE "False"

\* `audio_success and video_success` of start_both_recordings
BothStarted(audio_success, video_success) ==
    IF audio_success = "True" /\ video_success = "True"
    THEN "True" ELSE "False"

\* The rest of start_recording / start_pre_initialized after the thread start:
\* the VIDEO_START marker and the return (to start_both_recordings, when that
\* is the caller)
VideoStartSendMarker ==
    /\ pc = "vstart_marker"
    /\ Publish(<<VideoStartMarker(call.subj, v.video_filename,
                                  v.actual_fps)>>)
    /\ IF call.op = "start_both"
       THEN Return("start_both", BothStarted(call.acc, "True"))
       ELSE Return(call.op, "True")
    /\ UNCHANGED <<now, v, audioVars, captureVars, previewVars, faults, nops>>

\* RecorderCore.stop_video_recording(), up to the join
StopVideoRecording ==
    /\ Enter
    /\ IF VideoStopRejected(v)
       THEN /\ Return("v_stop", "False")
            /\ v' = v
       ELSE /\ v' = VideoStopSignal(v)
            /\ Block("vstop_join", "v_stop", "", "True")
    /\ UNCHANGED <<now, markers, audioVars, captureVars, previewVars, faults>>

\* Mutant: an earlier failure is forgotten when a later stop succeeds
BothStopped_Last(success, one) == one

\* `if not audio_success: success = False` of stop_both_recordings
BothStopped(success, one) ==
    IF success = "True" /\ one = "True" THEN "True" ELSE "False"

\* The rest of stop_recording once video_thread.join(timeout=5.0) has
\* returned, the thread having exited or not
VideoStopFinish ==
    /\ pc = "vstop_join"
    /\ v' = VideoStopRelease(v)
    /\ Publish(<<VideoStopMarker(v.video_filename)>>)
    /\ IF call.op = "stop_both"
       THEN Return("stop_both", BothStopped(call.acc, "True"))
       ELSE Return("v_stop", "True")
    /\ UNCHANGED <<now, audioVars, captureVars, previewVars, faults, nops>>

\* ---------------------------------------------------------- RecorderCore
\* Mutant: `and` in place of `or`
StartBothRejected_Mut(recording_audio, recording_video) ==
    recording_audio /\ recording_video

\* `if self.recording_audio or self.recording_video:` of start_both_recordings
StartBothRejected(recording_audio, recording_video) ==
    recording_audio \/ recording_video

\* The two synchronized file names of start_both_recordings: [audio, video]
SyncNames(subj, common_timestamp) ==
    [audio |-> AudioName(subj, "_audio", common_timestamp),
     video |-> VideoName(subj, "_video", common_timestamp)]

\* The two start_recording(..., pre_initialize=True, filename=...) calls of
\* start_both_recordings: result [a, v]
PreInitializeBoth(sa, sv, subj, adev, camOk, devfps, warm, t) ==
    LET n == SyncNames(subj, t)
    IN [a |-> AudioStartRecording(sa, subj, TRUE, n.audio, adev, t).a,
        v |-> VideoStartRecording(sv, subj, TRUE, n.video, camOk, devfps,
                                  warm, t).v]

\* RecorderCore.start_both_recordings, up to the start of the video thread
StartBothRecordings(subj, adev, camOk, devfps, warm) ==
    /\ Enter
    /\ adev # "ok" => ~StartBothRejected(a.recording, v.recording)
    /\ ~camOk => /\ ~StartBothRejected(a.recording, v.recording)
                 /\ VideoOpensCamera(v, TRUE)
    /\ Inject(Bit(adev # "ok") + Bit(~camOk))
    /\ IF StartBothRejected(a.recording, v.recording)
       THEN /\ Return("start_both", "False")
            /\ UNCHANGED <<a, nbuf, v, markers, captureVars>>
       ELSE LET p == PreInitializeBoth(a, v, subj, adev, camOk, devfps, warm,
                                       now)
                ab == AudioStartPreInitialized(p.a, subj, now)
                vb == VideoStartPreInitialized(p.v)
            IN IF ab.ret = "Raise"
               THEN \* caught by `except Exception`
                    /\ a' = p.a
                    /\ v' = p.v
                    /\ Return("start_both", "False")
                    /\ UNCHANGED <<nbuf, markers, captureVars>>
               ELSE /\ AudioStarts(ab.a)
                    /\ v' = vb.v
                    /\ Publish(ab.mk)
                    /\ IF vb.ret = "Spawn"
                       THEN /\ SpawnCapture
                            /\ Block("vstart_marker", "start_both", subj,
                                     ab.ret)
                       ELSE /\ Return("start_both",
                                      BothStarted(ab.ret, vb.ret))
                            /\ UNCHANGED captureVars
    /\ UNCHANGED <<now, wavs, previewVars>>

\* RecorderCore.stop_both_recordings, up to the join of the video stop
StopBothRecordings(out) ==
    /\ Enter
    /\ out # "ok" => a.recording
    /\ Inject(Bit(out # "ok"))
    /\ LET r == IF a.recording
                THEN AudioStopRecording(a, out, now)
                ELSE [a |-> a, ret |-> "True", mk |-> <<>>, wav |-> {}]
           success == BothStopped("True", r.ret)
       IN /\ a' = r.a
          /\ Publish(r.mk)
          /\ wavs' = WriteWav(wavs, r.wav)
          /\ IF v.recording
             THEN /\ v' = VideoStopSignal(v)
                  /\ Block("vstop_join", "stop_both", "", success)
             ELSE /\ v' = v
                  /\ Return("stop_both", success)
    /\ UNCHANGED <<now, nbuf, captureVars, previewVars>>

\* ---------------------------------------------------------------- preview
\* VideoRecorder.start_preview()
StartPreview(camOk) ==
    /\ Enter
    /\ ~camOk => ~v.preview_active /\ v.video_capture = "None"
    /\ Inject(Bit(~camOk))
    /\ IF v.preview_active
       THEN /\ Return("start_preview", "True")
            /\ UNCHANGED <<v, previewVars>>
       ELSE IF v.video_capture = "None" /\ ~camOk
       THEN /\ v' = [v EXCEPT !.video_capture = "closed"]
            /\ Return("start_preview", "False")
            /\ UNCHANGED previewVars
       ELSE /\ v' = [v EXCEPT !.video_capture =
                                  IF @ = "None" THEN "opened" ELSE @,
                              !.show_preview = TRUE,
                              !.preview_active = TRUE]
            /\ SpawnPreview
            /\ Return("start_preview", "True")
    /\ UNCHANGED <<now, markers, audioVars, captureVars>>

\* VideoRecorder.stop_preview(), up to the join
StopPreview ==
    /\ Enter
    /\ IF ~v.preview_active
       THEN /\ Return("stop_preview", "True")
            /\ v' = v
       ELSE /\ v' = [v EXCEPT !.show_preview = FALSE,
                              !.preview_active = FALSE]
            /\ Block("pstop_join", "stop_preview", "", "True")
    /\ UNCHANGED <<now, markers, audioVars, captureVars, previewVars, faults>>

\* The rest of stop_preview once preview_thread.join(timeout=2.0) has
\* returned, the thread having exited or not
StopPreviewFinish ==
    /\ pc = "pstop_join"
    /\ v' = PreviewStopRelease(v)
    /\ Return("stop_preview", "True")
    /\ UNCHANGED <<now, markers, audioVars, captureVars, previewVars, faults,
                   nops>>

\* ------------------------------------------------------- _recording_thread
\* What self.video_capture.read() can give: a frame ("ok"), no frame
\* ("fail"), or an exception when the handle is None ("exc").  A released or
\* unopened handle gives no frame; an opened one fails only when the
\* environment injects a failure.
ReadOutcomes(s, canFail) ==
    IF s.video_capture = "None" THEN {"exc"}
    ELSE IF s.video_capture = "closed" THEN {"fail"}
    ELSE {"ok"} \cup (IF canFail THEN {"fail"} ELSE {})

\* Whether outcome r is a failure injected by the environment
Injected(s, r) == r = "fail" /\ s.video_capture = "opened"

\* self.video_writer.write(frame): raises when the writer is None
WriterRaises(s) == s.video_writer = "None"

\* The recorder after the loop has written one frame; tap = the main loop
\* body, which also updates latest_preview_frame
FrameWritten(s, tap) ==
    [s EXCEPT !.written = Min(@ + 1, MaxFrames),
              !.latest_preview_frame =
                  IF tap /\ s.show_preview THEN "rec" ELSE @]

\* Mutant: the loop test looks at the session's handles, not at its flags
CaptureLoopTest_Handles(s) == s.video_capture # "None"

\* `while self.thread_active and self.recording:`
CaptureLoopTest(s) == s.thread_active /\ s.recording

\* Mutant: `<=` in place of `<`
RecoverLoopTest_Mut(s, att) == att <= max_attempts /\ s.thread_active

\* `while recover_attempts < max_attempts and self.thread_active:`
RecoverLoopTest(s, att) == att < max_attempts /\ s.thread_active

\* After the recovery loop: `if recover_attempts >= max_attempts: break`
RecoveryExhausted(att) == att >= max_attempts

\* Mutant: the loop clears the recording flag when it dies on an exception
CaptureBodyStep_ClearsFlag(s, r) ==
    IF r = "exc" \/ (r = "ok" /\ WriterRaises(s))
    THEN [th |-> NoThread, v |-> [s EXCEPT !.recording = FALSE]]
    ELSE IF r = "ok"
    THEN [th |-> [pc |-> "test", att |-> 0], v |-> FrameWritten(s, TRUE)]
    ELSE [th |-> [pc |-> "recover", att |-> 0], v |-> s]

\* The main loop body with read outcome r: result [th, v]; the thread ends
\* (NoThread) on an exception
CaptureBodyStep(s, r) ==
    IF r = "exc" \/ (r = "ok" /\ WriterRaises(s))
    THEN [th |-> NoThread, v |-> s]
    ELSE IF r = "ok"
    THEN [th |-> [pc |-> "test", att |-> 0], v |-> FrameWritten(s, TRUE)]
    ELSE [th |-> [pc |-> "recover", att |-> 0], v |-> s]

\* One iteration of the recovery loop with read outcome r: result [th, v]
CaptureRecoverStep(s, att, r) ==
    IF r = "exc" \/ (r = "ok" /\ WriterRaises(s))
    THEN [th |-> NoThread, v |-> s]
    ELSE IF r = "ok"
    THEN [th |-> [pc |-> "test", att |-> 0], v |-> FrameWritten(s, FALSE)]
    ELSE [th |-> [pc |-> "recover", att |-> att + 1], v |-> s]

\* The loop test of thread i
CaptureTest(i) ==
    /\ cthreads[i].pc = "test"
    /\ cthreads' = [cthreads EXCEPT ![i] =
                       IF CaptureLoopTest(v) THEN [pc |-> "body", att |-> 0]
                       ELSE NoThread]
    /\ UNCHANGED <<now, v, markers, audioVars, video_thread, previewVars,
                   faults, callerVars>>

\* One iteration of the main loop body of thread i: read, then write or
\* enter recovery
CaptureBody(i) ==
    /\ cthreads[i].pc = "body"
    /\ \E r \in ReadOutcomes(v, faults < MaxFaults) :
         LET n == CaptureBodyStep(v, r)
         IN /\ cthreads' = [cthreads EXCEPT ![i] = n.th]
            /\ v' = n.v
            /\ faults' = faults + Bit(Injected(v, r))
    /\ UNCHANGED <<now, markers, audioVars, video_thread, previewVars,
                   callerVars>>

\* One iteration of the recovery loop of thread i, or its exit
CaptureRecover(i) ==
    /\ cthreads[i].pc = "recover"
    /\ IF RecoverLoopTest(v, cthreads[i].att)
       THEN \E r \in ReadOutcomes(v, faults < MaxFaults) :
              LET n == CaptureRecoverStep(v, cthreads[i].att, r)
              IN /\ cthreads' = [cthreads EXCEPT ![i] = n.th]
                 /\ v' = n.v
                 /\ faults' = faults + Bit(Injected(v, r))
       ELSE /\ cthreads' = [cthreads EXCEPT ![i] =
                               IF RecoveryExhausted(cthreads[i].att)
                               THEN NoThread
                               ELSE [pc |-> "test", att |-> 0]]
            /\ UNCHANGED <<v, faults>>
    /\ UNCHANGED <<now, markers, audioVars, video_thread, previewVars,
                   callerVars>>

\* --------------------------------------------------------- _preview_thread
\* `while self.preview_active and self.show_preview:`
PreviewLoopTest(s) == s.preview_active /\ s.show_preview

PreviewTest(i) ==
    /\ pthreads[i].pc = "test"
    /\ pthreads' = [pthreads EXCEPT ![i].pc =
                       IF PreviewLoopTest(v) THEN "body" ELSE "exit"]
    /\ UNCHANGED <<now, v, markers, audioVars, captureVars, preview_thread,
                   faults, callerVars>>

\* One iteration of the preview loop: read a frame and, if there is one,
\* store it
PreviewBody(i) ==
    /\ pthreads[i].pc = "body"
    /\ pthreads' = [pthreads EXCEPT ![i].pc = "test"]
    /\ \E r \in ReadOutcomes(v, TRUE) :
         v' = IF v.video_capture = "opened" /\ r = "ok"
              THEN [v EXCEPT !.latest_preview_frame = "preview"]
              ELSE v
    /\ UNCHANGED <<now, markers, audioVars, captureVars, preview_thread,
                   faults, callerVars>>

\* "Clean up when thread ends"
PreviewExit(i) ==
    /\ pthreads[i].pc = "exit"
    /\ pthreads' = [pthreads EXCEPT ![i] = NoThread]
    /\ v' = [v EXCEPT !.latest_preview_frame = "None"]
    /\ UNCHANGED <<now, markers, audioVars, captureVars, preview_thread,
                   faults, callerVars>>

\* ------------------------------------------------------------------- Spec
Next ==
    \/ Tick
    \/ DeliverBuffer
    \/ \E subj \in Subjects, pre \in BOOLEAN, dev \in AudioDevOutcomes :
         StartAudioRecording(subj, pre, dev)
    \/ \E subj \in Subjects : StartPreInitializedAudio(subj)
    \/ \E out \in AudioStopOutcomes : StopAudioRecording(out)
    \/ \E subj \in Subjects, pre \in BOOLEAN, camOk \in BOOLEAN,
          devfps \in DeviceFps, warm \in WarmUps :
         StartVideoRecording(subj, pre, camOk, devfps, warm)
    \/ \E subj \in Subjects : StartPreInitializedVideo(subj)
    \/ VideoStartSendMarker
    \/ StopVideoRecording
    \/ VideoStopFinish
    \/ \E subj \in Subjects, adev \in AudioDevOutcomes, camOk \in BOOLEAN,
          devfps \in DeviceFps, warm \in WarmUps :
         StartBothRecordings(subj, adev, camOk, devfps, warm)
    \/ \E out \in AudioStopOutcomes : StopBothRecordings(out)
    \/ \E camOk \in BOOLEAN : StartPreview(camOk)
    \/ StopPreview
    \/ StopPreviewFinish
    \/ \E i \in 1..MaxCaptureThreads :
         CaptureTest(i) \/ CaptureBody(i) \/ CaptureRecover(i)
    \/ \E i \in 1..MaxPreviewThreads :
         PreviewTest(i) \/ PreviewBody(i) \/ PreviewExit(i)

Spec == Init /\ [][Next]_vars

\* The steps of capture thread i
CaptureThread(i) == CaptureTest(i) \/ CaptureBody(i) \/ CaptureRecover(i)

\* The operations that act on the VideoRecorder: its own, those of
\* RecorderCore that call it, and its threads (the audio-only operations
\* leave every video variable unchanged)
VideoNext ==
    \/ Tick
    \/ \E subj \in Subjects, pre \in BOOLEAN, camOk \in BOOLEAN,
          devfps \in DeviceFps, warm \in WarmUps :
         StartVideoRecording(subj, pre, camOk, devfps, warm)
    \/ \E subj \in Subjects : StartPreInitializedVideo(subj)
    \/ VideoStartSendMarker
    \/ StopVideoRecording
    \/ VideoStopFinish
    \/ \E subj \in Subjects, adev \in AudioDevOutcomes, camOk \in BOOLEAN,
          devfps \in DeviceFps, warm \in WarmUps :
         StartBothRecordings(subj, adev, camOk, devfps, warm)
    \/ \E out \in AudioStopOutcomes : StopBothRecordings(out)
    \/ \E camOk \in BOOLEAN : StartPreview(camOk)
    \/ StopPreview
    \/ StopPreviewFinish
    \/ \E i \in 1..MaxCaptureThreads :
         CaptureTest(i) \/ CaptureBody(i) \/ CaptureRecover(i)
    \/ \E i \in 1..MaxPreviewThreads :
         PreviewTest(i) \/ PreviewBody(i) \/ PreviewExit(i)

\* The VideoRecorder with every capture thread scheduled fairly and every
\* video_capture.read() returning: a thread that can take a step
\* eventually takes one
FairSpec ==
    /\ Init
    /\ [][VideoNext]_vars
    /\ \A i \in 1..MaxCaptureThreads : WF_vars(CaptureThread(i))

\* ================================================================ claims
\* The step is the call of public operation op by the caller (op is what the
\* call returns as, or blocks in)
Called(op) ==
    /\ pc = "idle"
    /\ nops' = nops + 1
    /\ \/ pc' = "idle" /\ ret'.op = op
       \/ pc' # "idle" /\ call'.op = op

\* The last call returned val from operation op and no call is in flight
Returned(op, val) == pc = "idle" /\ ret.op = op /\ ret.val = val

\* The markers of kind k for file f, as positions in the log
At(k, f) == {i \in 1..Len(markers) : markers[i].kind = k /\ markers[i].file = f}

MarkerFiles == {markers[i].file : i \in 1..Len(markers)}

StartKind(k) == IF k = "AUDIO_STOP" THEN "AUDIO_START" ELSE "VIDEO_START"

\* The markers the step publishes
Published == SubSeq(markers', Len(markers) + 1, Len(markers'))

\* C1: "recording", "marker sent" and "file finalized" are never observed
\* out of order: while a video stop is under way (its encoder not yet
\* released, its stop marker not yet published) the session still reports
\* recording, and a start marker is only about to be published by a session
\* that reports recording.
C1_StatesInOrder ==
    /\ pc = "vstop_join" => v.recording
    /\ pc = "vstart_marker" => v.recording

\* C2: a stop marker for file F is only ever published after a start marker
\* of the same session for the same F.
C2_StopAfterStart ==
    \A i \in 1..Len(markers) :
        markers[i].kind \in {"AUDIO_STOP", "VIDEO_STOP"} =>
            \E j \in 1..(i - 1) :
                /\ markers[j].kind = StartKind(markers[i].kind)
                /\ markers[j].file = markers[i].file

\* C3: per session and file name, at most one start marker and at most one
\* stop marker is ever published.
C3_OneStartOneStop ==
    \A f \in MarkerFiles :
        \A k \in {"AUDIO_START", "AUDIO_STOP", "VIDEO_START", "VIDEO_STOP"} :
            Cardinality(At(k, f)) <= 1

\* C4: start_pre_initialized on a session that is already Recording fails:
\* it returns False, publishes no marker and starts no capture loop.
C4_SecondBeginRejected ==
    [][/\ (Called("a_begin") /\ a.recording) =>
              (ret'.val = "False" /\ markers' = markers)
       /\ (Called("v_begin") /\ v.recording) =>
              (pc' = "idle" /\ ret'.val = "False" /\ cthreads' = cthreads)
      ]_vars

\* A session that holds no opened, not yet started stream (never armed, arm
\* failed, or finalized) / no encoder (never armed or finalized) is not Armed
NotArmedAudio == ~a.recording /\ a.audio_stream \in {"None", "closed"}
NotArmedVideo == ~v.recording /\ v.video_writer = "None"

\* C5: start_pre_initialized on a session that is not Armed fails, leaves the
\* session not Recording and publishes no start marker.
C5_BeginRequiresArmed ==
    [][/\ (Called("a_begin") /\ NotArmedAudio) =>
              (ret'.val # "True" /\ ~a'.recording /\ markers' = markers)
       /\ (Called("v_begin") /\ NotArmedVideo) =>
              (pc' = "idle" /\ ret'.val # "True" /\ ~v'.recording)
      ]_vars

\* C6: arm (start_recording with pre_initialize=True, on a session that is
\* not Recording) followed immediately by stop_recording: the stop returns
\* False, publishes no marker, writes no file and changes nothing.
C6_ArmThenFinalizeFails ==
    [][/\ (Returned("a_arm", "True") /\ Called("a_stop")) =>
              (ret'.val = "False" /\ markers' = markers /\ wavs' = wavs
               /\ a' = a)
       /\ (Returned("v_arm", "True") /\ ~v.recording /\ Called("v_stop")) =>
              (pc' = "idle" /\ ret'.val = "False" /\ markers' = markers
               /\ v' = v /\ cthreads' = cthreads)
      ]_vars

\* C6 witness: the video session was armed by the first call and the second
\* call, stop_recording, has returned False
C6_Witness ==
    /\ nops = 2
    /\ Returned("v_stop", "False")
    /\ v.video_writer = "open"
    /\ v.video_capture = "opened"
    /\ markers = <<>>

\* The step completes a video finalize (the only way out of the join)
VideoFinalized == pc = "vstop_join" /\ pc' = "idle"

\* The step is a successful audio finalize (only it publishes AUDIO_STOP)
AudioFinalized ==
    \E i \in 1..Len(Published) : Published[i].kind = "AUDIO_STOP"

\* C7 as claimed: after any successful finalize the session is Idle and both
\* its device handle and its sink handle are released.
C7_AllReleased ==
    [][/\ VideoFinalized =>
              (~v'.recording /\ v'.video_writer = "None"
               /\ v'.video_capture = "None")
       /\ AudioFinalized =>
              (~a'.recording /\ a'.audio_stream = "closed"
               /\ a'.audio_p = "terminated")
      ]_vars

\* C7 as amended: after any successful finalize the session is Idle and its
\* sink handle is released, and its device handle is released unless, for
\* video, the preview is on.
C7_ReleasedUnlessPreview ==
    [][/\ VideoFinalized =>
              (~v'.recording /\ v'.video_writer = "None"
               /\ (v'.video_capture = "None" \/ v'.show_preview))
       /\ AudioFinalized =>
              (~a'.recording /\ a'.audio_stream = "closed"
               /\ a'.audio_p = "terminated")
      ]_vars

\* C7 witness: a video finalize has returned True after its join timed out
\* (the capture loop it waited for is still alive)
C7_Witness ==
    /\ Returned("v_stop", "True")
    /\ video_thread # 0
    /\ cthreads[video_thread].pc # "free"
    /\ v.video_writer = "None"
    /\ v.video_capture = "None"

\* start_both_recordings returns val in this step: at once, or after the
\* VIDEO_START marker of the video thread it started
StartBothReturns(val) ==
    /\ \/ Called("start_both")
       \/ pc = "vstart_marker" /\ call.op = "start_both"
    /\ pc' = "idle"
    /\ ret'.val = val

\* The call of start_both_recordings publishes at most AUDIO_START before
\* it starts the video thread, and nothing is published while it waits
StartBothPublishes ==
    /\ Called("start_both") =>
           /\ Len(Published) <= 1
           /\ pc' = "idle" => Published = <<>>
    /\ (pc = "vstart_marker" /\ pc' = "vstart_marker") => markers' = markers
    /\ StartBothReturns("True") =>
           /\ Len(Published) = 1
           /\ Len(markers') >= 2
           /\ markers'[Len(markers') - 1].kind = "AUDIO_START"
           /\ markers'[Len(markers')].kind = "VIDEO_START"

\* C8: start_both_recordings either returns True with both sessions
\* Recording and exactly AUDIO_START then VIDEO_START published by the call,
\* or returns False with at most one session Recording.
C8_StartBothOutcome ==
    [][/\ StartBothPublishes
       /\ StartBothReturns("True") => a'.recording /\ v'.recording
       /\ StartBothReturns("False") => ~(a'.recording /\ v'.recording)
      ]_vars

\* C8 as amended: a call rejected because both sessions were already
\* Recording returns False and leaves both Recording; every other call
\* that returns False leaves at most one session Recording.
C8_StartBothOutcomeUnlessBothRecording ==
    [][/\ StartBothPublishes
       /\ StartBothReturns("True") => a'.recording /\ v'.recording
       /\ (StartBothReturns("False") /\ ~(a.recording /\ v.recording)) =>
              ~(a'.recording /\ v'.recording)
       /\ (StartBothReturns("False") /\ a.recording /\ v.recording) =>
              /\ Called("start_both")
              /\ a' = a /\ v' = v /\ markers' = markers
      ]_vars

\* C8 witness: a second start_both_recordings has been rejected while both
\* sessions were Recording with their two start markers published
C8_Witness ==
    /\ nops = 2
    /\ Returned("start_both", "False")
    /\ a.recording
    /\ v.recording
    /\ Len(markers) = 2

\* C9: start_both_recordings called while either session is Recording
\* returns False at once and changes neither session, publishes nothing and
\* starts no thread.
C9_StartBothRejectedNoEffect ==
    [][(Called("start_both") /\ (a.recording \/ v.recording)) =>
           /\ pc' = "idle"
           /\ ret'.val = "False"
           /\ a' = a
           /\ v' = v
           /\ markers' = markers
           /\ cthreads' = cthreads
      ]_vars

\* C9 witness: the video session was started directly by the first call and
\* the second call, start_both_recordings, has returned False
C9_Witness ==
    /\ nops = 2
    /\ Returned("start_both", "False")
    /\ v.recording
    /\ Len(markers) = 1
    /\ a = AudioInit

\* C10: if an arm fails inside start_both_recordings (the environment made
\* a device fail), no session becomes Recording, no marker is published and
\* no capture loop is started.
C10_ArmFailureStopsStartBoth ==
    [][(Called("start_both") /\ faults' > faults) =>
           /\ pc' = "idle"
           /\ ret'.val = "False"
           /\ ~a'.recording
           /\ ~v'.recording
           /\ markers' = markers
           /\ cthreads' = cthreads
      ]_vars

\* The kinds of a sequence of markers, in order
Kinds(m) == [i \in 1..Len(m) |-> m[i].kind]

\* The step in which start_both_recordings returns after its two begin calls
BeginsOfStartBoth ==
    /\ pc = "vstart_marker"
    /\ call.op = "start_both"
    /\ pc' = "idle"

\* C11: start_both_recordings returns True only if both begin calls
\* succeeded; when the audio begin failed and the video begin succeeded it
\* returns False with the video session left Recording, its VIDEO_START
\* published, its capture thread untouched and no stop marker published;
\* when the audio begin raised, neither session is Recording.
C11_StartBothNoRollback ==
    [][/\ (Called("start_both") /\ pc' = "vstart_marker") =>
              /\ v'.recording
              /\ (call'.acc = "True") <=> a'.recording
              /\ call'.acc = "True" => Kinds(Published) = <<"AUDIO_START">>
              /\ call'.acc # "True" => Published = <<>>
       /\ BeginsOfStartBoth =>
              /\ ret'.val = call.acc
              /\ v'.recording
              /\ a' = a
              /\ cthreads' = cthreads
              /\ Kinds(Published) = <<"VIDEO_START">>
       /\ (Called("start_both") /\ pc' = "idle") =>
              /\ ret'.val = "False"
              /\ Published = <<>>
              /\ a'.recording = a.recording
              /\ v'.recording = v.recording
      ]_vars

\* C11 witness: start_both_recordings has returned False with only the video
\* session Recording and only its start marker published
C11_Witness ==
    /\ Returned("start_both", "False")
    /\ v.recording
    /\ ~a.recording
    /\ Kinds(markers) = <<"VIDEO_START">>

VideoStopReturns(op) ==
    /\ pc = "vstop_join"
    /\ call.op = op
    /\ pc' = "idle"

\* The last completed call, seen from inside the call that follows it
Previous(op, val) == ret.op = op /\ ret.val = val

\* The stop markers at positions i and j carry the file names of the start
\* markers of their own stream at positions 1 (audio) and 2 (video)
StopsMatchStarts(m, i, j) == m[i].file = m[1].file /\ m[j].file = m[2].file

\* C13: start_both_recordings succeeding as the first operation, followed
\* by stop_both_recordings, or by the two single stops in either order, all
\* succeeding, publishes exactly four markers: AUDIO_START, VIDEO_START,
\* the stop marker of the session stopped first, then the other one's.
C13_FourMarkersInOrder ==
    [][/\ (StartBothReturns("True") /\ nops' = 1) =>
              Kinds(markers') = <<"AUDIO_START", "VIDEO_START">>
       /\ (VideoStopReturns("stop_both") /\ call.acc = "True" /\ nops = 2
           /\ Previous("start_both", "True")) =>
              /\ Kinds(markers') = <<"AUDIO_START", "VIDEO_START",
                                     "AUDIO_STOP", "VIDEO_STOP">>
              /\ StopsMatchStarts(markers', 3, 4)
       /\ (Called("a_stop") /\ nops = 1 /\ Returned("start_both", "True")
           /\ ret'.val = "True") =>
              Kinds(markers') = <<"AUDIO_START", "VIDEO_START",
                                  "AUDIO_STOP">>
       /\ (VideoStopReturns("v_stop") /\ nops = 3
           /\ Previous("a_stop", "True")
           /\ Kinds(markers) = <<"AUDIO_START", "VIDEO_START",
                                 "AUDIO_STOP">>) =>
              /\ Kinds(markers') = <<"AUDIO_START", "VIDEO_START",
                                     "AUDIO_STOP", "VIDEO_STOP">>
              /\ StopsMatchStarts(markers', 3, 4)
       /\ (VideoStopReturns("v_stop") /\ nops = 2
           /\ Previous("start_both", "True")) =>
              Kinds(markers') = <<"AUDIO_START", "VIDEO_START",
                                  "VIDEO_STOP">>
       /\ (Called("a_stop") /\ nops = 2 /\ Returned("v_stop", "True")
           /\ Kinds(markers) = <<"AUDIO_START", "VIDEO_START",
                                 "VIDEO_STOP">>
           /\ ret'.val = "True") =>
              /\ Kinds(markers') = <<"AUDIO_START", "VIDEO_START",
                                     "VIDEO_STOP", "AUDIO_STOP">>
              /\ StopsMatchStarts(markers', 4, 3)
      ]_vars

\* C13 witness: after start_both_recordings, the video stop and then the
\* audio stop, the log holds the four markers in stop-call order
C13_Witness ==
    /\ nops = 3
    /\ Returned("a_stop", "True")
    /\ Kinds(markers) = <<"AUDIO_START", "VIDEO_START", "VIDEO_STOP",
                          "AUDIO_STOP">>

\* C14: whenever start_both_recordings returns True, the AUDIO_START and
\* VIDEO_START markers it published carry file names that embed the call's
\* subject id and one common timestamp, and the two sessions hold those
\* file names.
C14_SharedTimestamp ==
    [][(BeginsOfStartBoth /\ ret'.val = "True") =>
           LET n == Len(markers')
               fa == markers'[n - 1].file
               fv == markers'[n].file
           IN /\ n >= 2
              /\ fa # NoFile
              /\ fv # NoFile
              /\ NameSubject(fa) = call.subj
              /\ NameSubject(fv) = call.subj
              /\ NameStamp(fa) = NameStamp(fv)
              /\ a'.audio_filename = fa
              /\ v'.video_filename = fv
      ]_vars

\* The session holds a sink: it is Armed (stream opened / encoder created,
\* not yet begun) or Recording
NotIdleAudio == a.recording \/ a.audio_stream = "open"
NotIdleVideo == v.recording \/ v.video_writer = "open"

\* C15: arm (start_recording with pre_initialize=True) on a session that is
\* Armed or Recording returns False, and no step reassigns the file name of a
\* session that is Armed or Recording.
C15_ArmOnlyFromIdle ==
    [][/\ (Called("a_arm") /\ NotIdleAudio) => ret'.val = "False"
       /\ (Called("v_arm") /\ NotIdleVideo) => ret'.val = "False"
       /\ NotIdleAudio => a'.audio_filename = a.audio_filename
       /\ NotIdleVideo => v'.video_filename = v.video_filename
      ]_vars

\* The step is a start_recording call (arm or direct start) that fails on a
\* session that is not Recording
AudioStartFails ==
    /\ Called("a_arm") \/ Called("a_start")
    /\ ~a.recording
    /\ ret'.val = "False"

VideoStartFails ==
    /\ Called("v_arm") \/ Called("v_start")
    /\ ~v.recording
    /\ pc' = "idle"
    /\ ret'.val = "False"

\* C16: a failed arm or start leaves the session not Recording and holding
\* no open stream or camera (other than a camera the preview holds), and a
\* begin that directly follows the failed arm fails too.
C16_FailedStartLeavesIdle ==
    [][/\ AudioStartFails =>
              (~a'.recording /\ a'.audio_stream \in {"None", "closed"})
       /\ VideoStartFails =>
              (~v'.recording
               /\ (v'.video_capture = "opened" => v'.preview_active))
       /\ (Returned("a_arm", "False") /\ ~a.recording
           /\ Called("a_begin")) =>
              (ret'.val # "True" /\ ~a'.recording)
       /\ ((Returned("v_arm", "False") \/ Returned("v_start", "False"))
           /\ ~v.recording /\ Called("v_begin")) =>
              (pc' = "idle" /\ ret'.val = "False" /\ ~v'.recording)
      ]_vars

\* The step is an audio stop_recording (called directly or by
\* stop_both_recordings) that gets past its guard and fails: no AUDIO_STOP
AudioStopFails ==
    /\ Called("a_stop") \/ Called("stop_both")
    /\ a.recording
    /\ Published = <<>>

\* C17: a stop_recording that fails because a step raised still leaves the
\* session not Recording and holding no open stream or PortAudio instance.
C17_FailedStopReleases ==
    [][AudioStopFails =>
           /\ ~a'.recording
           /\ a'.audio_stream \in {"None", "closed"}
           /\ a'.audio_p \in {"None", "terminated"}
      ]_vars

\* Capture thread i takes a step from position p
CaptureSteps(i, p) == cthreads[i].pc = p /\ cthreads'[i] # cthreads[i]

\* C18: a failed read in the capture loop starts a recovery of at most
\* max_attempts (30) further reads and does not end the loop; a read that
\* succeeds within the window writes its frame and the loop continues; once
\* the window is used up the loop ends and writes nothing more.
C18_BoundedRecovery ==
    /\ [](\A i \in 1..MaxCaptureThreads : cthreads[i].att <= max_attempts)
    /\ [][\A i \in 1..MaxCaptureThreads :
            /\ (CaptureSteps(i, "body") /\ cthreads'[i].pc = "recover") =>
                   (cthreads'[i].att = 0 /\ v' = v)
            /\ (CaptureSteps(i, "recover")
                /\ cthreads[i].att < max_attempts /\ v.thread_active) =>
                   \/ /\ cthreads'[i].pc = "test"
                      /\ v.video_capture = "opened"
                      /\ v' = [v EXCEPT
                                 !.written = Min(v.written + 1, MaxFrames)]
                   \/ /\ cthreads'[i].pc = "recover"
                      /\ cthreads'[i].att = cthreads[i].att + 1
                      /\ v' = v
                   \/ /\ cthreads'[i].pc = "free"
                      /\ v.video_capture = "None" \/ v.video_writer = "None"
                      /\ v' = v
            /\ (CaptureSteps(i, "recover")
                /\ cthreads[i].att < max_attempts /\ ~v.thread_active) =>
                   (cthreads'[i].pc = "test" /\ v' = v)
            /\ (CaptureSteps(i, "recover")
                /\ cthreads[i].att >= max_attempts) =>
                   (cthreads'[i].pc = "free" /\ v' = v)
         ]_vars

\* C18 witness: a capture loop has used up its recovery window while the
\* session is still active
C18_Witness ==
    \E i \in 1..MaxCaptureThreads :
        /\ cthreads[i].pc = "recover"
        /\ cthreads[i].att = max_attempts
        /\ v.thread_active
        /\ v.recording

\* C19: at every moment at most one capture-loop thread and at most one
\* preview-loop thread of the VideoRecorder is alive.
C19_OneLoopEach ==
    /\ Cardinality(Alive(cthreads)) <= 1
    /\ Cardinality(Alive(pthreads)) <= 1

\* The step in which stop_preview returns after its join
PreviewStopReturns == pc = "pstop_join" /\ pc' = "idle"

\* C20: start_preview on a session that is not recording and has no preview
\* leaves the camera opened when it succeeds; start_preview on a recording
\* session keeps the opened camera and opens nothing; stop_preview releases
\* the camera when the session is not recording and leaves it alone when it
\* is; stop_recording releases the camera unless the preview is on.
C20_PreviewAndDevice ==
    [][/\ (Called("start_preview") /\ ~v.recording /\ ~v.preview_active
           /\ ret'.val = "True") =>
              v'.video_capture = "opened"
       /\ (Called("start_preview") /\ v.recording
           /\ v.video_capture = "opened") =>
              (v'.video_capture = "opened" /\ faults' = faults)
       /\ (PreviewStopReturns /\ ~v.recording) => v'.video_capture = "None"
       /\ (PreviewStopReturns /\ v.recording) =>
              v'.video_capture = v.video_capture
       /\ (VideoFinalized /\ ~v.show_preview) => v'.video_capture = "None"
       /\ (VideoFinalized /\ v.show_preview) =>
              v'.video_capture = v.video_capture
      ]_vars

\* The outcome of the audio path arm-then-begin from session state s
AudioArmThenBegin(s, subj, dev, t) ==
    LET arm == AudioStartRecording(s, subj, TRUE, NoFile, dev, t)
    IN [arm |-> arm, begin |-> AudioStartPreInitialized(arm.a, subj, t)]

\* The outcome of the video path arm-then-begin from session state s
VideoArmThenBegin(s, subj, camOk, devfps, warm, t) ==
    LET arm == VideoStartRecording(s, subj, TRUE, NoFile, camOk, devfps,
                                   warm, t)
    IN [arm |-> arm, begin |-> VideoStartPreInitialized(arm.v)]

\* C21: from an Idle session and with the same device behaviour, the direct
\* start and arm followed by begin leave the session in the same state,
\* publish the same start marker and succeed in the same cases.
C21_DirectEqualsArmBegin ==
    /\ NotArmedAudio =>
         \A subj \in Subjects, dev \in AudioDevOutcomes :
            LET d == AudioStartRecording(a, subj, FALSE, NoFile, dev, now)
                p == AudioArmThenBegin(a, subj, dev, now)
            IN /\ (d.ret = "True") <=>
                      (p.arm.ret = "True" /\ p.begin.ret = "True")
               /\ d.ret = "True" => (d.a = p.begin.a /\ d.mk = p.begin.mk)
    /\ NotArmedVideo =>
         \A subj \in Subjects, camOk \in BOOLEAN, devfps \in DeviceFps,
            warm \in WarmUps :
            LET d == VideoStartRecording(v, subj, FALSE, NoFile, camOk,
                                         devfps, warm, now)
                p == VideoArmThenBegin(v, subj, camOk, devfps, warm, now)
            IN /\ (d.ret = "Spawn") <=>
                      (p.arm.ret = "True" /\ p.begin.ret = "Spawn")
               /\ d.ret = "Spawn" => d.v = p.begin.v

\* The step belongs to a single-modality audio operation of RecorderCore
AudioOnlyStep ==
    Called("a_arm") \/ Called("a_start") \/ Called("a_stop")

\* The step belongs to a single-modality video operation of RecorderCore:
\* its call, or its return after the thread start or the join
VideoOnlyStep ==
    \/ Called("v_arm") \/ Called("v_start") \/ Called("v_stop")
    \/ /\ pc \in {"vstart_marker", "vstop_join"}
       /\ call.op \in {"v_start", "v_stop"}
       /\ pc' = "idle"

\* The markers of stream k ("AUDIO" / "VIDEO") among the published ones
OfStream(m, k) ==
    {i \in 1..Len(m) : m[i].kind \in {k \o "_START", k \o "_STOP"}}

\* C22: a single-modality start or stop, succeeding or failing, leaves the
\* other modality's session fields, threads, files and markers unchanged.
C22_SingleModalityFrame ==
    [][/\ AudioOnlyStep =>
              /\ v' = v
              /\ cthreads' = cthreads /\ video_thread' = video_thread
              /\ pthreads' = pthreads /\ preview_thread' = preview_thread
              /\ OfStream(Published, "VIDEO") = {}
       /\ VideoOnlyStep =>
              /\ a' = a
              /\ wavs' = wavs
              /\ OfStream(Published, "AUDIO") = {}
      ]_vars

\* C22 witness: a video start has failed while the audio session was
\* recording, and the audio session is still recording with only its own
\* marker published
C22_Witness ==
    /\ Returned("v_start", "False")
    /\ a.recording
    /\ a.audio_stream = "started"
    /\ Kinds(markers) = <<"AUDIO_START">>

\* The step in which capture thread i writes a frame to self.video_writer:
\* the only way from the loop body, or from a recovery read, back to the
\* loop test
WritesFrame(i) ==
    /\ cthreads'[i].pc = "test"
    /\ \/ cthreads[i].pc = "body"
       \/ cthreads[i].pc = "recover" /\ RecoverLoopTest(v, cthreads[i].att)

\* C23: a capture loop that has outlived a finalize (the join timed out)
\* writes no further frame to any encoder, neither once the finalize has
\* returned nor while a new recording is being started on the same session.
C23_OutlivedLoopWritesNothing ==
    [][\A i \in 1..MaxCaptureThreads :
          /\ Returned("v_stop", "True") => ~WritesFrame(i)
          /\ (pc = "vstart_marker" /\ Previous("v_stop", "True")
              /\ i # video_thread) => ~WritesFrame(i)
      ]_vars

\* The buffers of frame list f
Buffers(f) == {f[j] : j \in 1..Len(f)}

\* Frame list f is an initial part of frame list g
IsPrefix(f, g) == Len(f) <= Len(g) /\ SubSeq(g, 1, Len(f)) = f

\* The step in which an audio stop succeeds, alone or within
\* stop_both_recordings
AudioStopSucceeds ==
    /\ Called("a_stop") \/ Called("stop_both")
    /\ a.recording
    /\ ~a'.recording
    /\ Len(Published) > 0

\* C24: a buffer the driver delivers to a started stream of a session that
\* is recording once the delivery is over is in audio_frames; while the
\* session records, audio_frames only grows at its end; a successful stop
\* writes exactly audio_frames, in order, to the container.
C24_EveryBufferKept ==
    [][/\ (nbuf' = nbuf + 1 /\ a'.audio_stream = "started" /\ a'.recording) =>
              /\ nbuf + 1 \in Buffers(a'.audio_frames)
              /\ a'.audio_frames[Len(a'.audio_frames)] = nbuf + 1
       /\ (a.recording /\ a'.recording) =>
              IsPrefix(a.audio_frames, a'.audio_frames)
       /\ AudioStopSucceeds =>
              \E w \in wavs' : /\ w.name = a.audio_filename
                               /\ w.data = a.audio_frames
      ]_vars

\* The step is an audio stop_recording (called directly or by
\* stop_both_recordings) that gets past its guard
AudioStopRuns ==
    /\ Called("a_stop") \/ Called("stop_both")
    /\ a.recording

\* The step closes the audio stream and terminates the PortAudio instance
AudioDeviceClosed ==
    /\ a.audio_stream # "closed"
    /\ a'.audio_stream = "closed"
    /\ a'.audio_p = "terminated"

\* The step writes the container of the session's recording
AudioContainerWritten ==
    /\ [name |-> a.audio_filename, data |-> a.audio_frames] \in wavs'
    /\ wavs' = WriteWav(wavs, {[name |-> a.audio_filename,
                                data |-> a.audio_frames]})

\* C25: an audio stop runs its steps in order: AUDIO_STOP is published only
\* by a stop that has written the container, the container is written only
\* by a stop that has closed the device, and the session is Idle afterwards.
\* A stop that closes the device but fails to write the container still
\* leaves the session Idle, returns False, writes no container and publishes
\* no AUDIO_STOP.
C25_AudioStopInOrder ==
    [][/\ AudioFinalized => (AudioStopRuns /\ AudioContainerWritten)
       /\ (AudioStopRuns /\ wavs' # wavs) =>
              (AudioContainerWritten /\ AudioDeviceClosed)
       /\ (AudioStopRuns /\ AudioDeviceClosed) =>
              /\ ~a'.recording
              /\ Called("a_stop") =>
                    ret'.val = IF AudioFinalized THEN "True" ELSE "False"
              /\ ~AudioFinalized => wavs' = wavs
      ]_vars

\* C25 witness: a stop has closed the device of a recording session and
\* failed to write the container: the session is Idle, the stop returned
\* False, there is no container and no AUDIO_STOP
C25_Witness ==
    /\ Returned("a_stop", "False")
    /\ ~a.recording
    /\ a.audio_stream = "closed"
    /\ a.audio_p = "terminated"
    /\ Kinds(markers) = <<"AUDIO_START">>
    /\ wavs = {}

\* The step in which capture thread i leaves its loop through a `break`:
\* recovery exhausted, or an exception caught by `except Exception`
LoopBreaks(i) ==
    /\ cthreads[i].pc \in {"body", "recover"}
    /\ cthreads'[i] = NoThread

\* The capture loop has ended by itself: the flags still say Recording, no
\* capture thread is alive and the caller is between calls
LoopEndedWhileRecording ==
    /\ pc = "idle"
    /\ v.recording
    /\ v.thread_active
    /\ Alive(cthreads) = {}

\* The session after stop_recording has run from session s with no capture
\* thread to wait for
VideoStopped(s) == VideoStopRelease(VideoStopSignal(s))

\* C26 as claimed: a capture loop that ends by itself leaves the session
\* reporting Recording and publishes nothing; the stop_recording that follows
\* is accepted, releases the encoder and the camera, leaves the session Idle,
\* publishes exactly one VIDEO_STOP and returns True.
C26_StopAfterLoopEnded ==
    /\ [](LoopEndedWhileRecording =>
             /\ ~VideoStopRejected(v)
             /\ ~VideoStopped(v).recording
             /\ VideoStopped(v).video_writer = "None"
             /\ VideoStopped(v).video_capture = "None")
    /\ [][/\ \A i \in 1..MaxCaptureThreads :
                LoopBreaks(i) => (v' = v /\ markers' = markers)
          /\ VideoFinalized =>
                /\ Kinds(Published) = <<"VIDEO_STOP">>
                /\ call.op = "v_stop" => ret'.val = "True"
         ]_vars

\* C26 amended: the same, the camera being released unless the preview is on.
C26_StopAfterLoopEndedUnlessPreview ==
    /\ [](LoopEndedWhileRecording =>
             /\ ~VideoStopRejected(v)
             /\ ~VideoStopped(v).recording
             /\ VideoStopped(v).video_writer = "None"
             /\ (VideoStopped(v).video_capture = "None" \/ v.show_preview))
    /\ [][/\ \A i \in 1..MaxCaptureThreads :
                LoopBreaks(i) => (v' = v /\ markers' = markers)
          /\ (Called("v_stop") /\ LoopEndedWhileRecording) =>
                pc' = "vstop_join"
          /\ VideoFinalized =>
                /\ Kinds(Published) = <<"VIDEO_STOP">>
                /\ v' = VideoStopRelease(v)
                /\ call.op = "v_stop" => ret'.val = "True"
         ]_vars

\* C26 witness: the capture loop of a recording has ended by itself and the
\* session still reports Recording, its start marker being the only marker
C26_Witness ==
    /\ LoopEndedWhileRecording
    /\ Kinds(markers) = <<"VIDEO_START">>
    /\ v.video_capture # "None"

\* The kinds of the markers the step publishes
PublishedKinds == {Published[i].kind : i \in 1..Len(Published)}

\* The step is the return of a begin (start_pre_initialized, alone or within
\* start_both_recordings) from behind its thread start
VideoBeginReturns ==
    /\ pc = "vstart_marker"
    /\ call.op \in {"v_begin", "start_both"}
    /\ pc' = "idle"

\* The step starts a capture thread: the slot of video_thread was free and
\* now holds a thread at its loop test
CaptureLaunched ==
    /\ video_thread' \in 1..MaxCaptureThreads
    /\ cthreads[video_thread'].pc = "free"
    /\ cthreads'[video_thread'].pc = "test"

\* C27: within a begin, AUDIO_START is published only once the stream is
\* started and the recording flag set, and an audio begin returns True
\* exactly when it has published it; VIDEO_START is published only after the
\* capture thread has been started, never in the step that starts it, and a
\* video begin returns from behind the thread start only with VIDEO_START
\* published; a begin that starts no thread does not return True.
C27_MarkerAfterStartBeforeReturn ==
    [][/\ ((Called("a_begin") \/ Called("start_both"))
           /\ "AUDIO_START" \in PublishedKinds) =>
              (a'.recording /\ a'.audio_stream = "started")
       /\ Called("a_begin") =>
              /\ ret'.val = "True" <=> Kinds(Published) = <<"AUDIO_START">>
              /\ ret'.val # "True" => (Published = <<>> /\ a' = a)
       /\ (Called("v_begin") \/ Called("start_both")) =>
              /\ "VIDEO_START" \notin PublishedKinds
              /\ IF pc' = "vstart_marker"
                 THEN CaptureLaunched /\ v'.recording /\ v'.thread_active
                 ELSE ret'.val # "True" /\ UNCHANGED captureVars
       /\ VideoBeginReturns =>
              /\ Kinds(Published) = <<"VIDEO_START">>
              /\ v.recording /\ v.thread_active
              /\ video_thread \in 1..MaxCaptureThreads
              /\ (call.op = "start_both" /\ ret'.val = "True") =>
                    \E i \in 1..Len(markers) : markers[i].kind = "AUDIO_START"
      ]_vars

\* C27 witness: start_both_recordings has returned True with both streams
\* live, both flags set, and the two start markers published in order
C27_Witness ==
    /\ Returned("start_both", "True")
    /\ a.recording /\ a.audio_stream = "started"
    /\ v.recording /\ v.thread_active
    /\ video_thread \in 1..MaxCaptureThreads
    /\ Kinds(markers) = <<"AUDIO_START", "VIDEO_START">>

\* The video session is Armed: start_recording(pre_initialize=True) has
\* opened the camera and created the encoder, and no recording has begun
ArmedVideo ==
    /\ ~v.recording
    /\ v.video_capture = "opened"
    /\ v.video_writer = "open"

\* C28: a stop_preview that returns while the video session is Armed leaves
\* the session Armed with its camera open, and a start_pre_initialized
\* called next gets past its guard and starts the capture thread.
C28_StopPreviewKeepsArmed ==
    [][(PreviewStopReturns /\ ArmedVideo) =>
          /\ v'.video_capture = "opened"
          /\ v'.video_writer = "open"
          /\ VideoStartPreInitialized(v').ret = "Spawn"
      ]_vars

\* stop_recording has signalled the capture loop, and no recording has been
\* begun since
StopSignalled == ~v.thread_active /\ ~v.recording

\* C29: once the stop signal is set, every live capture loop exits unless a
\* new recording is begun first; the loop that sees the signal at its loop
\* test exits there, the recovery loop reads and writes nothing more, and the
\* loop body leads to the loop test, to the recovery loop or out: at most one
\* more frame is written.
C29_LoopExitsAfterSignal ==
    /\ (StopSignalled /\ Alive(cthreads) # {})
          ~> (Alive(cthreads) = {} \/ ~StopSignalled)
    /\ [][\A i \in 1..MaxCaptureThreads : StopSignalled =>
            /\ CaptureSteps(i, "test") => cthreads'[i] = NoThread
            /\ CaptureSteps(i, "recover") =>
                  (v' = v /\ cthreads'[i].pc \in {"test", "free"})
            /\ CaptureSteps(i, "body") =>
                  cthreads'[i].pc \in {"test", "recover", "free"}
         ]_vars

\* C29 witness: stop_recording has set the signal while a capture loop is
\* inside its recovery loop
C29_Witness ==
    /\ pc = "vstop_join"
    /\ StopSignalled
    /\ \E i \in 1..MaxCaptureThreads : cthreads[i].pc = "recover"

\* The step is a start_recording or start_pre_initialized, on a session that
\* is not recording, that gets as far as starting the capture thread
VideoStartLaunches ==
    /\ pc = "idle"
    /\ pc' = "vstart_marker"
    /\ ~v.recording

\* C30: no frame is written to the encoder of a recording before its
\* VIDEO_START is published: the start has written none when it starts the
\* capture thread, and no capture loop writes one while the start has still
\* to publish the marker.
C30_NoFrameBeforeStartMarker ==
    [][/\ VideoStartLaunches => v'.written = 0
       /\ pc = "vstart_marker" =>
              \A i \in 1..MaxCaptureThreads : ~WritesFrame(i)
      ]_vars

\* The preview is off and no stop_preview is still under way: it was never
\* started, or the last stop_preview has returned and no start_preview has
\* followed
PreviewStopped == ~v.preview_active /\ pc # "pstop_join"

\* C31: once stop_preview has returned, latest_preview_frame is None and
\* stays None until the preview is started again, whatever a capture loop or
\* a preview loop that outlived the join does.
C31_NoFrameAfterStopPreview ==
    PreviewStopped => v.latest_preview_frame = "None"

\* The step belongs to start_preview or stop_preview (toggle_preview calls
\* one of the two, by show_preview): its call, or its return after the join
PreviewOpStep ==
    Called("start_preview") \/ Called("stop_preview") \/ PreviewStopReturns

\* The step is taken by a preview thread
PreviewThreadStep ==
    /\ nops' = nops
    /\ pc' = pc
    /\ pthreads' # pthreads

\* What a recording consists of in session s: its flags, file name, frame
\* rate, encoder and the frames written to it
RecordingOf(s) ==
    <<s.recording, s.thread_active, s.video_filename, s.actual_fps,
      s.video_writer, s.written>>

\* C32: a step of the preview loop writes nothing to the encoder (it changes
\* latest_preview_frame at most), and starting or stopping the preview leaves
\* the recording flags, the file name and the encoder unchanged, starts or
\* stops no capture thread and publishes no marker.
C32_PreviewLeavesRecordingAlone ==
    [][/\ PreviewThreadStep =>
              /\ v' = [v EXCEPT !.latest_preview_frame =
                                    v'.latest_preview_frame]
              /\ markers' = markers
       /\ PreviewOpStep =>
              /\ RecordingOf(v') = RecordingOf(v)
              /\ cthreads' = cthreads /\ video_thread' = video_thread
              /\ markers' = markers
      ]_vars

\* C32 witness: the preview has been started and stopped during a recording,
\* which is still running with its encoder and its start marker only
C32_Witness ==
    /\ Returned("stop_preview", "True")
    /\ v.recording /\ v.thread_active
    /\ v.video_writer = "open"
    /\ Kinds(markers) = <<"VIDEO_START">>

\* C33: a direct start (pre_initialize=False) on a session that is Recording
\* returns False and changes nothing: the session's fields (flag, file name,
\* handles, encoder, buffered frames), its threads, the files and the
\* published markers are as before.
C33_DirectStartWhileRecordingRejected ==
    [][/\ (Called("a_start") /\ a.recording) =>
              /\ ret'.val = "False"
              /\ a' = a /\ wavs' = wavs /\ nbuf' = nbuf
              /\ markers' = markers
       /\ (Called("v_start") /\ v.recording) =>
              /\ pc' = "idle"
              /\ ret'.val = "False"
              /\ v' = v
              /\ cthreads' = cthreads /\ video_thread' = video_thread
              /\ markers' = markers
      ]_vars

\* C33 witness: a direct video start has been rejected on a recording
\* session, which still records with its one start marker
C33_Witness ==
    /\ Returned("v_start", "False")
    /\ v.recording /\ v.thread_active
    /\ v.video_writer = "open"
    /\ Kinds(markers) = <<"VIDEO_START">>

\* The step begins an audio run: the recording flag goes from False to True
AudioRunBegins == ~a.recording /\ a'.recording

\* C34: the container a stop writes holds only buffers of the current run:
\* a run begins with no buffer in audio_frames that the driver delivered
\* before (buffers are numbered in delivery order, 1..nbuf being those
\* already delivered), and the stop writes audio_frames as they are.
C34_OnlyCurrentRunBuffers ==
    [][/\ AudioRunBegins =>
              Buffers(a'.audio_frames) \cap (1..nbuf) = {}
       /\ AudioStopSucceeds =>
              \E w \in wavs' : /\ w.name = a.audio_filename
                               /\ w.data = a.audio_frames
      ]_vars

\* ------------------------------------------------------------ RecorderApp
\* The buttons after the handler of operation op has got `success` from the
\* core; ra, rv are core.recording_audio and core.recording_video then
GuiAfter(g, op, success, ra, rv) ==
    IF ~success THEN g
    ELSE IF op = "a_start"
    THEN [g EXCEPT !.start_audio = FALSE, !.stop_audio = TRUE]
    ELSE IF op = "v_start"
    THEN [g EXCEPT !.start_video = FALSE, !.stop_video = TRUE]
    ELSE IF op = "start_both"
    THEN [start_audio |-> FALSE, stop_audio |-> TRUE,
          start_video |-> FALSE, stop_video |-> TRUE,
          start_both |-> FALSE, stop_both |-> TRUE]
    ELSE IF op = "a_stop"
    THEN [g EXCEPT !.start_audio = TRUE, !.stop_audio = FALSE,
                   !.start_both = IF ~rv THEN TRUE ELSE @,
                   !.stop_both = IF ~rv THEN FALSE ELSE @]
    ELSE IF op = "v_stop"
    THEN [g EXCEPT !.start_video = TRUE, !.stop_video = FALSE,
                   !.start_both = IF ~ra THEN TRUE ELSE @,
                   !.stop_both = IF ~ra THEN FALSE ELSE @]
    ELSE [start_audio |-> TRUE, stop_audio |-> FALSE,
          start_video |-> TRUE, stop_video |-> FALSE,
          start_both |-> TRUE, stop_both |-> FALSE]

\* The core returns val to the button handler of op, which sets the buttons
GuiReturn(op, val) ==
    /\ pc' = "idle"
    /\ call' = NoCall
    /\ ret' = [op |-> op, val |-> val]
    /\ gui' = GuiAfter(gui, op, val = "True", a'.recording, v'.recording)
    /\ warm_up' = warm_up
    /\ audio_format' = audio_format

\* RecorderApp.start_audio (the Start Recording button of Audio)
GuiStartAudio(subj, dev) ==
    /\ gui.start_audio
    /\ Enter
    /\ dev # "ok" => ~AudioStartRejected(a)
    /\ Inject(Bit(dev # "ok"))
    /\ UNCHANGED <<now, v, wavs, captureVars, previewVars>>
    /\ LET r == AudioStartRecording(a, subj, FALSE, NoFile, dev, now)
       IN /\ AudioStarts(r.a)
          /\ Publish(r.mk)
          /\ GuiReturn("a_start", r.ret)

\* RecorderApp.stop_audio
GuiStopAudio(out) ==
    /\ gui.stop_audio
    /\ Enter
    /\ out # "ok" => a.recording
    /\ Inject(Bit(out # "ok"))
    /\ UNCHANGED <<now, v, nbuf, captureVars, previewVars>>
    /\ IF ~a.recording
       THEN /\ UNCHANGED <<a, markers, wavs>>
            /\ Return("a_stop", "None")
       ELSE LET r == AudioStopRecording(a, out, now)
            IN /\ a' = r.a
               /\ Publish(r.mk)
               /\ wavs' = WriteWav(wavs, r.wav)
               /\ GuiReturn("a_stop", r.ret)

\* RecorderApp.start_video, up to the start of the recording thread
GuiStartVideo(subj, camOk, devfps, warm) ==
    /\ gui.start_video
    /\ Enter
    /\ ~camOk => VideoOpensCamera(v, FALSE)
    /\ Inject(Bit(~camOk))
    /\ UNCHANGED <<now, markers, audioVars, previewVars>>
    /\ LET r == VideoStartRecording(v, subj, FALSE, NoFile, camOk, devfps,
                                    warm, now)
       IN /\ v' = r.v
          /\ IF r.ret = "Spawn"
             THEN /\ SpawnCapture
                  /\ Block("vstart_marker", "v_start", subj, "True")
             ELSE /\ UNCHANGED captureVars
                  /\ GuiReturn("v_start", r.ret)

\* The rest of start_video / start_both after the thread start: the
\* VIDEO_START marker, the core's return and the buttons
GuiVideoStartSendMarker ==
    /\ pc = "vstart_marker"
    /\ Publish(<<VideoStartMarker(call.subj, v.video_filename,
                                  v.actual_fps)>>)
    /\ UNCHANGED <<now, v, audioVars, captureVars, previewVars, faults, nops>>
    /\ IF call.op = "start_both"
       THEN GuiReturn("start_both", BothStarted(call.acc, "True"))
       ELSE GuiReturn(call.op, "True")

\* RecorderApp.stop_video, up to the join
GuiStopVideo ==
    /\ gui.stop_video
    /\ Enter
    /\ UNCHANGED <<now, markers, audioVars, captureVars, previewVars, faults>>
    /\ IF ~v.recording
       THEN /\ v' = v
            /\ Return("v_stop", "None")
       ELSE /\ v' = VideoStopSignal(v)
            /\ Block("vstop_join", "v_stop", "", "True")

\* The rest of stop_video / stop_both after the join
GuiVideoStopFinish ==
    /\ pc = "vstop_join"
    /\ v' = VideoStopRelease(v)
    /\ Publish(<<VideoStopMarker(v.video_filename)>>)
    /\ UNCHANGED <<now, audioVars, captureVars, previewVars, faults, nops>>
    /\ IF call.op = "stop_both"
       THEN GuiReturn("stop_both", BothStopped(call.acc, "True"))
       ELSE GuiReturn("v_stop", "True")

\* RecorderApp.start_both, up to the start of the recording thread
GuiStartBoth(subj, adev, camOk, devfps, warm) ==
    /\ gui.start_both
    /\ Enter
    /\ adev # "ok" => ~StartBothRejected(a.recording, v.recording)
    /\ ~camOk => /\ ~StartBothRejected(a.recording, v.recording)
                 /\ VideoOpensCamera(v, TRUE)
    /\ Inject(Bit(adev # "ok") + Bit(~camOk))
    /\ UNCHANGED <<now, wavs, previewVars>>
    /\ IF StartBothRejected(a.recording, v.recording)
       THEN /\ UNCHANGED <<a, nbuf, v, markers, captureVars>>
            /\ GuiReturn("start_both", "False")
       ELSE LET p == PreInitializeBoth(a, v, subj, adev, camOk, devfps, warm,
                                       now)
                ab == AudioStartPreInitialized(p.a, subj, now)
                vb == VideoStartPreInitialized(p.v)
            IN IF ab.ret = "Raise"
               THEN /\ a' = p.a
                    /\ v' = p.v
                    /\ UNCHANGED <<nbuf, markers, captureVars>>
                    /\ GuiReturn("start_both", "False")
               ELSE /\ AudioStarts(ab.a)
                    /\ v' = vb.v
                    /\ Publish(ab.mk)
                    /\ IF vb.ret = "Spawn"
                       THEN /\ SpawnCapture
                            /\ Block("vstart_marker", "start_both", subj,
                                     ab.ret)
                       ELSE /\ UNCHANGED captureVars
                            /\ GuiReturn("start_both",
                                         BothStarted(ab.ret, vb.ret))

\* RecorderApp.stop_both, up to the join of the video stop
GuiStopBoth(out) ==
    /\ gui.stop_both
    /\ Enter
    /\ out # "ok" => a.recording
    /\ Inject(Bit(out # "ok"))
    /\ UNCHANGED <<now, nbuf, captureVars, previewVars>>
    /\ IF ~a.recording /\ ~v.recording
       THEN /\ UNCHANGED <<a, v, markers, wavs>>
            /\ Return("stop_both", "None")
       ELSE LET r == IF a.recording
                     THEN AudioStopRecording(a, out, now)
                     ELSE [a |-> a, ret |-> "True", mk |-> <<>>, wav |-> {}]
                success == BothStopped("True", r.ret)
            IN /\ a' = r.a
               /\ Publish(r.mk)
               /\ wavs' = WriteWav(wavs, r.wav)
               /\ IF v.recording
                  THEN /\ v' = VideoStopSignal(v)
                       /\ Block("vstop_join", "stop_both", "", success)
                  ELSE /\ v' = v
                       /\ GuiReturn("stop_both", success)

\* The user presses enabled buttons, one handler at a time, while the audio
\* driver and the capture threads run
GuiNext ==
    \/ Tick
    \/ DeliverBuffer
    \/ \E subj \in Subjects, dev \in AudioDevOutcomes : GuiStartAudio(subj, dev)
    \/ \E out \in AudioStopOutcomes : GuiStopAudio(out)
    \/ \E subj \in Subjects, camOk \in BOOLEAN, devfps \in DeviceFps,
          warm \in WarmUps :
         GuiStartVideo(subj, camOk, devfps, warm)
    \/ GuiVideoStartSendMarker
    \/ GuiStopVideo
    \/ GuiVideoStopFinish
    \/ \E subj \in Subjects, adev \in AudioDevOutcomes, camOk \in BOOLEAN,
          devfps \in DeviceFps, warm \in WarmUps :
         GuiStartBoth(subj, adev, camOk, devfps, warm)
    \/ \E out \in AudioStopOutcomes : GuiStopBoth(out)
    \/ \E i \in 1..MaxCaptureThreads :
         CaptureTest(i) \/ CaptureBody(i) \/ CaptureRecover(i)

\* The recorder driven through the window of RecorderApp
GuiSpec == Init /\ [][GuiNext]_vars

\* C35: between two button actions, a modality the core reports as recording
\* has a stop control enabled: its own Stop button or Stop Both.
C35_RecordingCanBeStopped ==
    pc = "idle" =>
        /\ a.recording => (gui.stop_audio \/ gui.stop_both)
        /\ v.recording => (gui.stop_video \/ gui.stop_both)

\* ------------------------------------------- the warm-up loop, read by read
\* Mutant: no `break` after the first good read
WarmUpLoopRuns_NoBreak(w) == w.reads < WarmUpAttempts

\* `for _ in range(10):` with its `break`: whether one more read is made
WarmUpLoopRuns(w) == ~w.success /\ w.reads < WarmUpAttempts

\* VideoRecorder.start_recording from its entry to the creation of the
\* encoder, just before the warm-up loop
VideoStartOpen(subj, pre, camOk, devfps) ==
    /\ Enter
    /\ ~camOk => VideoOpensCamera(v, pre)
    /\ Inject(Bit(~camOk))
    /\ UNCHANGED <<now, markers, audioVars, captureVars, previewVars>>
    /\ IF VideoStartRejected(v, pre)
       THEN /\ v' = v
            /\ Return(IF pre THEN "v_arm" ELSE "v_start", "False")
       ELSE IF VideoOpenCapture(v, camOk) = "closed"
       THEN /\ v' = [v EXCEPT !.video_capture = "closed"]
            /\ Return(IF pre THEN "v_arm" ELSE "v_start", "False")
       ELSE /\ v' = [v EXCEPT !.video_capture = "opened",
                              !.actual_fps = NegotiateFps(devfps),
                              !.video_filename = VideoName(subj, "_video", now),
                              !.video_writer = "open",
                              !.written = 0]
            /\ pc' = "warm_up"
            /\ call' = [op |-> IF pre THEN "v_arm" ELSE "v_start",
                        subj |-> subj, acc |-> ""]
            /\ ret' = ret
            /\ gui' = gui
            /\ warm_up' = WarmUpInit
            /\ audio_format' = audio_format

\* One iteration of the warm-up loop: `ret, frame = self.video_capture.read()`
\* and, on a good read, the first frame written unless pre-initializing
WarmUpRead(ok) ==
    /\ pc = "warm_up"
    /\ WarmUpLoopRuns(warm_up)
    /\ warm_up' = [reads |-> warm_up.reads + 1, success |-> ok]
    /\ v' = IF ok /\ call.op = "v_start"
            THEN [v EXCEPT !.written = Min(1, MaxFrames)]
            ELSE v
    /\ UNCHANGED <<now, markers, audioVars, captureVars, previewVars, faults,
                   nops, pc, call, ret, gui, audio_format>>

\* start_recording after the warm-up loop: the warning when no frame came,
\* then the return of an arm, or the thread start of a direct start
WarmUpEnd ==
    /\ pc = "warm_up"
    /\ ~WarmUpLoopRuns(warm_up)
    /\ IF call.op = "v_arm"
       THEN /\ v' = v
            /\ UNCHANGED captureVars
            /\ Return("v_arm", "True")
       ELSE /\ v' = [v EXCEPT !.recording = TRUE, !.thread_active = TRUE]
            /\ SpawnCapture
            /\ Block("vstart_marker", "v_start", call.subj, "True")
    /\ UNCHANGED <<now, markers, audioVars, previewVars, faults, nops>>

\* The VideoRecorder with start_recording taken one camera read at a time
WarmUpNext ==
    \/ Tick
    \/ \E subj \in Subjects, pre \in BOOLEAN, camOk \in BOOLEAN,
          devfps \in DeviceFps :
         VideoStartOpen(subj, pre, camOk, devfps)
    \/ \E ok \in BOOLEAN : WarmUpRead(ok)
    \/ WarmUpEnd
    \/ \E subj \in Subjects : StartPreInitializedVideo(subj)
    \/ VideoStartSendMarker
    \/ StopVideoRecording
    \/ VideoStopFinish
    \/ \E i \in 1..MaxCaptureThreads :
         CaptureTest(i) \/ CaptureBody(i) \/ CaptureRecover(i)

WarmUpSpec == Init /\ [][WarmUpNext]_vars

\* The step is one camera read of the warm-up loop
WarmUpReads == pc = "warm_up" /\ warm_up'.reads = warm_up.reads + 1

\* The step ends the warm-up of an arm
ArmLeavesWarmUp == pc = "warm_up" /\ call.op = "v_arm" /\ pc' # "warm_up"

\* C36: the warm-up of a video arm makes at most 10 reads and none after the
\* first good one; however the reads went, all 10 failing included, the arm
\* returns True with the camera and the encoder held, and a begin called next
\* starts the session.
C36_WarmUpBoundedAndTolerant ==
    /\ [](warm_up.reads <= WarmUpAttempts)
    /\ [][/\ WarmUpReads => ~warm_up.success
          /\ ArmLeavesWarmUp =>
                /\ pc' = "idle"
                /\ ret' = [op |-> "v_arm", val |-> "True"]
                /\ v' = v
                /\ v.video_capture = "opened"
                /\ v.video_writer = "open"
          /\ (Called("v_begin") /\ Previous("v_arm", "True")) =>
                /\ pc' = "vstart_marker"
                /\ v'.recording /\ v'.thread_active
                /\ Alive(cthreads') # Alive(cthreads)]_vars

\* An arm in which all 10 warm-up reads failed has returned True and the
\* begin after it has started the session
C36_Witness ==
    /\ Returned("v_begin", "True")
    /\ warm_up = [reads |-> WarmUpAttempts, success |-> FALSE]
    /\ v.recording
    /\ v.written = 0
    /\ Kinds(markers) = <<"VIDEO_START">>

\* What cv2.CAP_PROP_FPS may report: invalid, lower than, equal to and
\* greater than the requested rate
ReportedFps == (0 - 1)..(ConfigFps + 6)

\* The step calls an operation that runs VideoRecorder.start_recording
VideoArmCalled == Called("v_arm") \/ Called("v_start") \/ Called("start_both")

\* C37: the effective frame rate is the device-reported one if that is
\* greater than 0 and lower than the requested one, and the requested one
\* otherwise, so never greater than the requested one; only an arm sets it
\* and it does not change while the session records; every VIDEO_START
\* marker carries it, a negotiated rate.
C37_EffectiveFps ==
    /\ [](\A d \in ReportedFps :
            /\ NegotiateFps(d) = IF d > 0 /\ d < ConfigFps THEN d ELSE ConfigFps
            /\ NegotiateFps(d) <= ConfigFps)
    /\ [][/\ v'.actual_fps # v.actual_fps =>
                /\ VideoArmCalled
                /\ ~v.recording
                /\ v'.actual_fps \in {NegotiateFps(d) : d \in ReportedFps}
          /\ \A i \in 1..Len(Published) :
                Published[i].kind = "VIDEO_START" =>
                    /\ Published[i].fps = v.actual_fps
                    /\ Published[i].fps \in 1..ConfigFps]_vars

\* ------------------------------------------------- the audio sample format
\* PyAudio's sample format constants
paFloat32 == 1
paInt32 == 2
paInt24 == 4
paInt16 == 8
paInt8 == 16
paUInt8 == 32
paCustomFormat == 65536

\* The sample format names audio_settings["format"] may hold
FormatNames ==
    {"paInt16", "paInt24", "paInt32", "paFloat32", "paInt8", "paUInt8",
     "paCustomFormat"}

\* getattr(pyaudio, format_name)
PyAudioFormat(format_name) ==
    CASE format_name = "paFloat32" -> paFloat32
      [] format_name = "paInt32" -> paInt32
      [] format_name = "paInt24" -> paInt24
      [] format_name = "paInt16" -> paInt16
      [] format_name = "paInt8" -> paInt8
      [] format_name = "paUInt8" -> paUInt8
      [] format_name = "paCustomFormat" -> paCustomFormat

\* format_value of start_recording: paInt16 with the device defaults, the
\* configured format otherwise
FormatValue(cfg) ==
    IF cfg.use_device_defaults THEN paInt16 ELSE PyAudioFormat(cfg.format)

\* format_map of AudioRecorder.start_recording
format_map ==
    [f \in {paInt16, paInt24, paInt32, paFloat32} |->
        IF f = paInt16 THEN 2 ELSE IF f = paInt24 THEN 3 ELSE 4]

\* Mutant: the default width is that of a 32-bit sample
SampleWidth_Default4(format_value) ==
    IF format_value \in DOMAIN format_map THEN format_map[format_value] ELSE 4

\* `format_map.get(format_value, 2)`
SampleWidth(format_value) ==
    IF format_value \in DOMAIN format_map THEN format_map[format_value] ELSE 2

\* A recorder built with any of the audio configurations
FormatInit ==
    /\ now = 1
    /\ a = AudioInit
    /\ v = VideoInit
    /\ markers = <<>>
    /\ wavs = {}
    /\ nbuf = 0
    /\ cthreads = [i \in 1..MaxCaptureThreads |-> NoThread]
    /\ video_thread = 0
    /\ pthreads = [i \in 1..MaxPreviewThreads |-> NoThread]
    /\ preview_thread = 0
    /\ faults = 0
    /\ nops = 0
    /\ pc = "idle"
    /\ call = NoCall
    /\ ret = [op |-> "init", val |-> "True"]
    /\ gui = GuiInit
    /\ warm_up = WarmUpInit
    /\ audio_format \in [use_device_defaults : BOOLEAN, format : FormatNames,
                         actual_sample_width : {0}]

\* RecorderCore.start_audio_recording with the sample width it stores once
\* the device is found, before the stream is opened
FormatStartAudio(subj, pre, dev) ==
    /\ Enter
    /\ dev # "ok" => ~AudioStartRejected(a)
    /\ Inject(Bit(dev # "ok"))
    /\ UNCHANGED <<now, v, wavs, captureVars, previewVars, gui, warm_up>>
    /\ LET r == AudioStartRecording(a, subj, pre, NoFile, dev, now)
       IN /\ AudioStarts(r.a)
          /\ Publish(r.mk)
          /\ pc' = "idle"
          /\ call' = NoCall
          /\ ret' = [op |-> IF pre THEN "a_arm" ELSE "a_start", val |-> r.ret]
          /\ audio_format' =
                IF AudioStartRejected(a) \/ dev = "notfound"
                THEN audio_format
                ELSE [audio_format EXCEPT !.actual_sample_width =
                                      SampleWidth(FormatValue(audio_format))]

\* The AudioRecorder under each audio configuration
FormatNext ==
    \/ Tick
    \/ DeliverBuffer
    \/ \E subj \in Subjects, pre \in BOOLEAN, dev \in AudioDevOutcomes :
         FormatStartAudio(subj, pre, dev)
    \/ \E subj \in Subjects : StartPreInitializedAudio(subj)
    \/ \E out \in AudioStopOutcomes : StopAudioRecording(out)

FormatSpec == FormatInit /\ [][FormatNext]_vars

\* The sample format the recorder negotiates under its configuration
NegotiatedFormat ==
    IF audio_format.use_device_defaults THEN "paInt16" ELSE audio_format.format

\* The step is a start_recording that finds its device
AudioDeviceFound ==
    /\ Called("a_arm") \/ Called("a_start")
    /\ ~a.recording
    /\ a'.audio_p # "None"

\* C38: a start_recording that finds its device stores the sample width of
\* the negotiated format: 2 for 16-bit int, 3 for 24-bit int, 4 for 32-bit
\* int and 32-bit float, 2 for every other format; with another format the
\* arm whose stream opens still returns True. No other step sets the width.
C38_SampleWidthFromTable ==
    [][/\ AudioDeviceFound =>
            /\ audio_format'.actual_sample_width =
                  IF NegotiatedFormat = "paInt16" THEN 2
                  ELSE IF NegotiatedFormat = "paInt24" THEN 3
                  ELSE IF NegotiatedFormat \in {"paInt32", "paFloat32"} THEN 4
                  ELSE 2
            /\ a'.audio_p = "live" =>
                  /\ ret'.val = "True"
                  /\ a'.audio_stream \in {"open", "started"}
       /\ audio_format'.actual_sample_width # audio_format.actual_sample_width
             => AudioDeviceFound
       /\ audio_format'.format = audio_format.format
       /\ audio_format'.use_device_defaults = audio_format.use_device_defaults
      ]_vars

\* An arm under a configured 8-bit format has returned True with width 2
C38_Witness ==
    /\ Returned("a_arm", "True")
    /\ ~audio_format.use_device_defaults
    /\ audio_format.format = "paUInt8"
    /\ audio_format.actual_sample_width = 2
    /\ a.audio_stream = "open"

====
